---- MODULE Spec2Model ----
(***************************************************************************)
(* A model of the ulang compiler: the parser (src/src/parser.rs), the IR   *)
(* builder (src/src/tacky.rs), the instruction selector, frame allocator,  *)
(* legalizer and emitter (src/src/assembly.rs), the driver                 *)
(* (src/src/bin/ulang_driver.rs), and a reference machine that executes    *)
(* the emitted text.                                                       *)
(***************************************************************************)
EXTENDS Integers, Sequences, FiniteSets, TLC

VARIABLES
    nodes,      \* Tacky.nodes: the program's top-level AST nodes
    counter,    \* Tacky.counter: the temporary-name counter
    result,     \* Tacky.result: the FunctionDefinition under construction
    stage,      \* where the driver's main stands
    program,    \* the TackyProgram handed to the selector
    asm,        \* the AsmFunctionDef of the current AsmProgram
    stackSize,  \* AsmProgramWithReplacedPseudoRegisters.1
    hasher,     \* the PseudoRegistryHash: [hash, counter]
    lastGet,    \* the last PseudoRegistryHash::get call: [id, ret]
    firstGets,  \* first get call of every name, in call order: <<[id, ret]>>
    platform,   \* the TargetPlatform given to generate
    text,       \* AsmGenerated: the emitted lines
    cpu,        \* the reference machine executing text
    opt,        \* main's opt: the UlangDriver flags, and whether the file exists
    tokens,     \* main's tokens: what the lexer returned
    ast,        \* what Parser::parse returned
    outcome     \* the driver process: [exited, code, written, gcc]

vars == <<nodes, counter, result, stage, program, asm, stackSize, hasher,
          lastGet, firstGets, platform, text, cpu, opt, tokens, ast, outcome>>

-----------------------------------------------------------------------------
(* Bounds of the model.                                                    *)

\* longest IR instruction list handed directly to the selector
MaxIR == 2
\* number of distinct names requested from the PseudoRegistryHash
NumNames == 4
\* most constructors in the expression of a single return statement
MaxSize == 5
\* most statements in a Compound body of short statements
MaxStmts == 2
\* the most body tokens of a token list handed to the parser
MaxTokens == 4

-----------------------------------------------------------------------------
(* i32 arithmetic.  Every intermediate value stays within the i32 range.   *)

MaxI32 == 2147483647
MinI32 == (-MaxI32) - 1

\* i32 wrapping addition
WrapAdd(a, b) ==
    IF b > 0 /\ a > MaxI32 - b THEN (a + MinI32) + (b + MinI32)
    ELSE IF b < 0 /\ a < MinI32 - b THEN (a - MinI32) + (b - MinI32)
    ELSE a + b

\* i32 wrapping negation
WrapNeg(a) == IF a = MinI32 THEN MinI32 ELSE -a

\* i32 wrapping subtraction a - b
WrapSub(a, b) ==
    IF b = MinI32
    THEN (IF a < 0 THEN a - MinI32 ELSE a + MinI32)
    ELSE WrapAdd(a, -b)

\* 2h + a or 2h modulo 2^32
MulStep(h, a, odd) ==
    IF odd = 1 THEN WrapAdd(WrapAdd(h, h), a) ELSE WrapAdd(h, h)

RECURSIVE MulNat(_, _)
\* a * b modulo 2^32 for b >= 0, by doubling
MulNat(a, b) ==
    IF b = 0 THEN 0
    ELSE CHOOSE p \in { MulStep(h, a, b % 2) : h \in { MulNat(a, b \div 2) } } : TRUE

\* i32 wrapping multiplication
WrapMul(a, b) ==
    IF b >= 0 THEN MulNat(a, b)
    ELSE IF b = MinI32 THEN (IF a % 2 = 1 THEN MinI32 ELSE 0)
    ELSE WrapNeg(MulNat(a, -b))

\* quotient truncated toward zero, for b > 0
TruncDivPos(a, b) ==
    IF a >= 0 THEN a \div b
    ELSE IF a % b = 0 THEN a \div b ELSE (a \div b) + 1

\* quotient of signed division truncated toward zero (b # 0, not MinI32 / -1)
TruncDiv(a, b) ==
    IF b > 0 THEN TruncDivPos(a, b)
    ELSE IF b = MinI32 THEN (IF a = MinI32 THEN 1 ELSE 0)
    ELSE -TruncDivPos(a, -b)

\* remainder of signed division: the sign of the dividend
TruncRem(a, b) == a - TruncDiv(a, b) * b

\* signed division overflows or divides by zero
DivTraps(a, b) == b = 0 \/ (a = MinI32 /\ b = -1)

-----------------------------------------------------------------------------
(* tacky::Value and tacky::Instruction, as assembly.rs consumes them.      *)

Constant(c) == [vk |-> "Constant", c |-> c]
Var(id) == [vk |-> "Var", id |-> id]

IrReturn(v) == [ik |-> "Return", val |-> v]
IrUnary(o, s, d) == [ik |-> "Unary", operator |-> o, src |-> s, dest |-> d]
IrBinary(o, s1, s2, d) ==
    [ik |-> "Binary", operator |-> o, src1 |-> s1, src2 |-> s2, dest |-> d]
IrCopy(s, d) == [ik |-> "Copy", src |-> s, dest |-> d]
IrJump(l) == [ik |-> "Jump", target |-> l]
IrJumpIfZero(v, l) == [ik |-> "JumpIfZero", val |-> v, target |-> l]
IrJumpIfNotZero(v, l) == [ik |-> "JumpIfNotZero", val |-> v, target |-> l]
IrLabel(l) == [ik |-> "Label", target |-> l]

UnaryOperators == {"Complement", "Negate", "Not"}
ArithmeticOperators == {"Add", "Substract", "Multiply", "Divide", "Remainder"}
ComparisonOperators ==
    {"Equal", "NotEqual", "LessThan", "LessOrEqual", "GreaterThan", "GreaterOrEqual"}
LogicalOperators == {"And", "Or"}
TackyBinaryOperators ==
    ArithmeticOperators \cup ComparisonOperators \cup LogicalOperators

-----------------------------------------------------------------------------
(* assembly.rs: operands and instructions.                                 *)

Register(r) == [k |-> "Register", reg |-> r]
Imm(i) == [k |-> "Imm", imm |-> i]
Stack(o) == [k |-> "Stack", off |-> o]
Pseudo(id) == [k |-> "Pseudo", id |-> id]

AsmRegistry == {"AX", "DX", "R10", "R11"}

Mov(s, d) == [op |-> "Mov", src |-> s, dst |-> d]
AsmUnary(o, x) == [op |-> "Unary", uop |-> o, operand |-> x]
Cmp(a, b) == [op |-> "Cmp", first |-> a, second |-> b]
AllocateStack(n) == [op |-> "AllocateStack", bytes |-> n]
AsmBinary(o, a, b) == [op |-> "Binary", bop |-> o, first |-> a, second |-> b]
Idiv(x) == [op |-> "Idiv", operand |-> x]
Cdq == [op |-> "Cdq"]
Jmp(l) == [op |-> "Jmp", target |-> l]
JmpCC(c, l) == [op |-> "JmpCC", cc |-> c, target |-> l]
SetCC(c, x) == [op |-> "SetCC", cc |-> c, operand |-> x]
Label(l) == [op |-> "Label", target |-> l]
Return == [op |-> "Return"]

\* a selector that gives a constant a pseudo register of its own
OperandFromValueSpilled(v) ==
    IF v.vk = "Constant" THEN Pseudo("imm." \o ToString(v.c)) ELSE Pseudo(v.id)

\* impl From<&Value> for Operand
OperandFromValue(v) == IF v.vk = "Constant" THEN Imm(v.c) ELSE Pseudo(v.id)

\* ConditionCode::try_from with less-or-equal given the code of less-than
ConditionCodeFromMerged(o) ==
    CASE o = "LessThan" -> "L"
      [] o = "LessOrEqual" -> "L"
      [] o = "GreaterThan" -> "G"
      [] o = "GreaterOrEqual" -> "GE"
      [] o = "Equal" -> "E"
      [] o = "NotEqual" -> "NE"
      [] OTHER -> "Err"

\* impl TryFrom<&TackyBinaryOperator> for ConditionCode: "Err" when unmapped
ConditionCodeFrom(o) ==
    CASE o = "LessThan" -> "L"
      [] o = "LessOrEqual" -> "LE"
      [] o = "GreaterThan" -> "G"
      [] o = "GreaterOrEqual" -> "GE"
      [] o = "Equal" -> "E"
      [] o = "NotEqual" -> "NE"
      [] OTHER -> "Err"

\* impl TryFrom<&TackyBinaryOperator> for AsmBinaryOperator: "Err" when unmapped
AsmBinaryOperatorFrom(o) ==
    CASE o = "Add" -> "Add"
      [] o = "Substract" -> "Sub"
      [] o = "Multiply" -> "Mult"
      [] OTHER -> "Err"

\* impl From<&UnaryOperator> for AsmUnaryOperator
AsmUnaryOperatorFrom(o) ==
    CASE o = "Complement" -> "Complement"
      [] o = "Negate" -> "Neg"
      [] o = "Not" -> "Not"

\* the instructions the selector pushes for Binary(Divide | Remainder)
SelectDivRem(i) ==
    << Mov(OperandFromValue(i.src1), Register("AX")),
       Cdq,
       Idiv(OperandFromValue(i.src2)),
       Mov(Register("AX"), OperandFromValue(i.dest)) >>

\* the instructions the selector pushes for a comparison
SelectCompare(i) ==
    << Cmp(OperandFromValue(i.src2), OperandFromValue(i.src1)),
       Mov(Imm(0), OperandFromValue(i.dest)),
       SetCC(ConditionCodeFrom(i.operator), OperandFromValue(i.dest)) >>

\* the instructions the selector pushes for the remaining binary operators;
\* the Mov is pushed before the operator conversion panics
SelectArith(i) ==
    << Mov(OperandFromValue(i.src1), OperandFromValue(i.dest)),
       AsmBinary(AsmBinaryOperatorFrom(i.operator),
                 OperandFromValue(i.src2), OperandFromValue(i.dest)) >>

\* Unary(Not) selected as the other unary operators are
SelectNotGeneric(i) ==
    << Mov(OperandFromValue(i.src), OperandFromValue(i.dest)),
       AsmUnary(AsmUnaryOperatorFrom(i.operator), OperandFromValue(i.dest)) >>

\* the instructions the selector pushes for Unary(Not)
SelectNot(i) ==
    << Cmp(Imm(0), OperandFromValue(i.src)),
       Mov(Imm(0), OperandFromValue(i.dest)),
       SetCC("E", OperandFromValue(i.dest)) >>

\* AsmFunctionDef::parse_instruction: the instructions pushed for one IR
\* instruction, and whether the call panics
ParseInstruction(i) ==
    CASE i.ik = "Jump" -> [panic |-> FALSE, push |-> << Jmp(i.target) >>]
      [] i.ik = "Label" -> [panic |-> FALSE, push |-> << Label(i.target) >>]
      [] i.ik = "JumpIfZero" ->
            [panic |-> FALSE,
             push |-> << Cmp(Imm(0), OperandFromValue(i.val)), JmpCC("E", i.target) >>]
      [] i.ik = "JumpIfNotZero" ->
            [panic |-> FALSE,
             push |-> << Cmp(Imm(0), OperandFromValue(i.val)), JmpCC("NE", i.target) >>]
      [] i.ik = "Binary" ->
            IF i.operator \in {"Divide", "Remainder"}
            THEN [panic |-> FALSE, push |-> SelectDivRem(i)]
            ELSE IF ConditionCodeFrom(i.operator) # "Err"
            THEN [panic |-> FALSE, push |-> SelectCompare(i)]
            ELSE IF AsmBinaryOperatorFrom(i.operator) = "Err"
            THEN [panic |-> TRUE, push |-> SubSeq(SelectArith(i), 1, 1)]
            ELSE [panic |-> FALSE, push |-> SelectArith(i)]
      [] i.ik = "Return" ->
            [panic |-> FALSE,
             push |-> << Mov(OperandFromValue(i.val), Register("AX")), Return >>]
      [] i.ik = "Unary" ->
            IF i.operator = "Not"
            THEN [panic |-> FALSE, push |-> SelectNot(i)]
            ELSE [panic |-> FALSE,
                  push |-> << Mov(OperandFromValue(i.src), OperandFromValue(i.dest)),
                              AsmUnary(AsmUnaryOperatorFrom(i.operator),
                                       OperandFromValue(i.dest)) >>]
      [] i.ik = "Copy" ->
            [panic |-> FALSE,
             push |-> << Mov(OperandFromValue(i.src), OperandFromValue(i.dest)) >>]

\* the selector's loop after one more parse_instruction call yielded r; a
\* panic ends the loop
SelectStep(prev, r) ==
    IF prev.panic THEN prev
    ELSE [panic |-> r.panic, instructions |-> prev.instructions \o r.push]

\* `for instruction in &tacky_function.instruction`: whether the loop
\* panicked, and function_def.instructions
SelectFrom(ir) ==
    LET step[m \in 0 .. Len(ir)] ==
            IF m = 0 THEN [panic |-> FALSE, instructions |-> << >>]
            ELSE CHOOSE next \in { SelectStep(prev, ParseInstruction(ir[m])) :
                                    prev \in { step[m - 1] } } : TRUE
    IN  step[Len(ir)]

\* AsmProgram(function_def)
AsmProgramOf(name, r) ==
    [panic |-> r.panic, name |-> name, instructions |-> r.instructions]

\* impl From<&TackyProgram> for AsmProgram
AsmProgramFrom(p) == AsmProgramOf(p.identifier, SelectFrom(p.instruction))

-----------------------------------------------------------------------------
(* assembly.rs: the frame allocator.                                       *)

\* PseudoRegistryHash::new
PseudoRegistryHashNew == [hash |-> [n \in {} |-> 0], counter |-> 0]

\* `self.hash.insert(id.clone(), self.counter); self.counter`
PseudoRegistryHashInsert(h, id, c) ==
    [hash |-> [n \in DOMAIN h.hash \cup {id} |-> IF n = id THEN c ELSE h.hash[n]],
     counter |-> c,
     ret |-> c]

\* PseudoRegistryHash::get: the registry after the call and the value returned
\* get that decrements the counter after taking the offset
PseudoRegistryHashGetLate(h, id) ==
    IF id \in DOMAIN h.hash
    THEN [hash |-> h.hash, counter |-> h.counter, ret |-> h.hash[id]]
    ELSE [hash |-> [n \in DOMAIN h.hash \cup {id} |->
                        IF n = id THEN h.counter ELSE h.hash[n]],
          counter |-> WrapSub(h.counter, 4),
          ret |-> h.counter]

\* get that never looks the name up
PseudoRegistryHashGetAnew(h, id) ==
    PseudoRegistryHashInsert(h, id, WrapSub(h.counter, 4))

PseudoRegistryHashGet(h, id) ==
    IF id \in DOMAIN h.hash
    THEN [hash |-> h.hash, counter |-> h.counter, ret |-> h.hash[id]]
    ELSE PseudoRegistryHashInsert(h, id, WrapSub(h.counter, 4))
\* a frame size that keeps the sign of the registry's counter
StackToAllocateSigned(h) == h.counter

\* PseudoRegistryHash::stack_to_allocate
StackToAllocate(h) == IF h.counter < 0 THEN WrapNeg(h.counter) ELSE h.counter

\* `Operand::Stack(val)` for the val a get call returned
StackOfGet(g) == [h |-> [hash |-> g.hash, counter |-> g.counter], o |-> Stack(g.ret)]

\* `if let Operand::Pseudo(id) = op { .. = Operand::Stack(hasher.get(id)) }`:
\* the registry and the operand afterwards
ReplacePseudo(h, o) ==
    IF o.k = "Pseudo" THEN StackOfGet(PseudoRegistryHashGet(h, o.id))
    ELSE [h |-> h, o |-> o]

\* the two operands of an instruction, replaced first then second
ReplacedPair(r1, r2) == [h |-> r2.h, first |-> r1.o, second |-> r2.o]
ReplaceSecond(r1, o2) == ReplacedPair(r1, ReplacePseudo(r1.h, o2))
ReplaceBoth(h, o1, o2) == ReplaceSecond(ReplacePseudo(h, o1), o2)

\* the entries pushed on new_instructions
NewSetCC(cc, r) == [h |-> r.h, recorded |-> TRUE, ins |-> SetCC(cc, r.o)]
NewUnary(uop, r) == [h |-> r.h, recorded |-> TRUE, ins |-> AsmUnary(uop, r.o)]
NewCmp(p) == [h |-> p.h, recorded |-> TRUE, ins |-> Cmp(p.first, p.second)]
NewMov(p) == [h |-> p.h, recorded |-> TRUE, ins |-> Mov(p.first, p.second)]
NewBinary(bop, p) ==
    [h |-> p.h, recorded |-> TRUE, ins |-> AsmBinary(bop, p.first, p.second)]

\* one iteration of the allocator's first loop: the registry afterwards,
\* whether a replacement is recorded for the instruction, and the replacement
AllocateInstruction(h, ins) ==
    CASE ins.op = "SetCC" /\ ins.operand.k = "Pseudo" ->
            NewSetCC(ins.cc, ReplacePseudo(h, ins.operand))
      [] ins.op = "Cmp" -> NewCmp(ReplaceBoth(h, ins.first, ins.second))
      [] ins.op = "Mov" -> NewMov(ReplaceBoth(h, ins.src, ins.dst))
      [] ins.op = "Unary" /\ ins.operand.k = "Pseudo" ->
            NewUnary(ins.uop, ReplacePseudo(h, ins.operand))
      [] ins.op = "Binary" -> NewBinary(ins.bop, ReplaceBoth(h, ins.first, ins.second))
      [] OTHER -> [h |-> h, recorded |-> FALSE, ins |-> ins]

\* new_instructions after the iteration on position n that yielded r
PushNew(acc, n, r) ==
    IF r.recorded THEN Append(acc, [i |-> n, slice |-> << r.ins >>]) ELSE acc

\* the registry and new_instructions after the iteration on position n
\* that yielded r
ScanPush(acc, n, r) == [h |-> r.h, acc |-> PushNew(acc, n, r)]

\* the iteration on position n, from the registry and new_instructions in prev
ScanStep(prev, n, instructions) ==
    ScanPush(prev.acc, n, AllocateInstruction(prev.h, instructions[n]))

\* the allocator's first loop over the positions 1 .. n: the registry and
\* new_instructions, a list of [i, slice], after iteration n
AllocateScan(instructions, n) ==
    LET step[m \in 0 .. n] ==
            IF m = 0 THEN [h |-> PseudoRegistryHashNew, acc |-> << >>]
            ELSE CHOOSE next \in { ScanStep(prev, m, instructions) :
                                    prev \in { step[m - 1] } } : TRUE
    IN  step[n]

\* Vec::remove and a run of Vec::insert at one position (positions from 1)
Splice(vec, idx, slice) ==
    SubSeq(vec, 1, idx - 1) \o slice \o SubSeq(vec, idx + 1, Len(vec))

\* replace_with_multiple_elements
ReplaceWithMultipleElements(vec, idx, slice) ==
    IF idx <= Len(vec) THEN Splice(vec, idx, slice) ELSE vec

\* replace_with_two_elements
ReplaceWithTwoElements(vec, idx, elem1, elem2) ==
    IF idx <= Len(vec) THEN Splice(vec, idx, << elem1, elem2 >>) ELSE vec

\* `for (i, slice) in new_instructions.iter().rev()`: the list after the
\* entries Len, Len - 1, .., 1 have been applied
AllocatePatch(instructions, new_instructions) ==
    LET n == Len(new_instructions)
        patched[m \in 0 .. n] ==
            IF m = 0 THEN instructions
            ELSE CHOOSE next \in
                     { ReplaceWithMultipleElements(vec,
                                                   new_instructions[n + 1 - m].i,
                                                   new_instructions[n + 1 - m].slice) :
                       vec \in { patched[m - 1] } } : TRUE
    IN  patched[n]

\* AsmProgramWithReplacedPseudoRegisters(AsmProgram(..), hasher.stack_to_allocate())
ReplacedOf(value, scan) ==
    [name |-> value.name,
     instructions |-> AllocatePatch(value.instructions, scan.acc),
     stack |-> StackToAllocate(scan.h),
     hasher |-> scan.h]

\* impl From<AsmProgram> for AsmProgramWithReplacedPseudoRegisters
ReplacedFrom(value) ==
    ReplacedOf(value, AllocateScan(value.instructions, Len(value.instructions)))

\* the states HashMap::new() can draw for its hasher: they fix the order in
\* which the map would yield its entries
HashSeeds == {0, 1}

\* the slot a frame of `stack` bytes holds at the other end
MirrorOperand(o, stack) ==
    IF o.k = "Stack" THEN Stack(0 - stack - 4 - o.off) ELSE o

\* an instruction with its slots taken from the other end of the frame
MirrorInstruction(ins, stack) ==
    CASE ins.op = "Mov" ->
            Mov(MirrorOperand(ins.src, stack), MirrorOperand(ins.dst, stack))
      [] ins.op = "Cmp" ->
            Cmp(MirrorOperand(ins.first, stack), MirrorOperand(ins.second, stack))
      [] ins.op = "Binary" ->
            AsmBinary(ins.bop, MirrorOperand(ins.first, stack),
                      MirrorOperand(ins.second, stack))
      [] ins.op = "Unary" -> AsmUnary(ins.uop, MirrorOperand(ins.operand, stack))
      [] ins.op = "Idiv" -> Idiv(MirrorOperand(ins.operand, stack))
      [] ins.op = "SetCC" -> SetCC(ins.cc, MirrorOperand(ins.operand, stack))
      [] OTHER -> ins

\* an allocator that hands out the slots in the order the map yields its
\* entries: under seed 1 that order is the reverse of the insertion order
ReplacedByIteration(value, s) ==
    LET r == ReplacedFrom(value)
    IN  IF s = 0 THEN r
        ELSE [name |-> r.name,
              instructions |->
                  [n \in 1 .. Len(r.instructions) |->
                      MirrorInstruction(r.instructions[n], r.stack)],
              stack |-> r.stack,
              hasher |->
                  [hash |-> [id \in DOMAIN r.hasher.hash |->
                                0 - r.stack - 4 - r.hasher.hash[id]],
                   counter |-> r.hasher.counter]]

\* the allocator in a process whose HashMap::new() drew the state s: get and
\* insert are its only map operations, and neither reads the order of the
\* entries
ReplacedSeeded(value, s) == ReplacedFrom(value)

-----------------------------------------------------------------------------
(* assembly.rs: the legalizer.                                             *)

\* what one iteration of the legalizer's loop pushes on to_be_replaced
\* the legalizer's match without its Mov arm
FixInstructionCmpOnly(n, ins) ==
    IF ins.op = "Cmp"
    THEN << [i |-> n, first |-> Mov(ins.first, Register("R10")),
             second |-> Cmp(Register("R10"), ins.second)] >>
    ELSE << >>

\* a legalizer that queues the two instructions of a pair the other way round
FixInstructionSwapped(n, ins) ==
    IF ins.op = "Cmp"
    THEN << [i |-> n, first |-> Cmp(Register("R10"), ins.second),
             second |-> Mov(ins.first, Register("R10"))] >>
    ELSE IF ins.op = "Mov" /\ ins.src.k = "Stack" /\ ins.dst.k = "Stack"
    THEN << [i |-> n, first |-> Mov(Register("R10"), Stack(ins.dst.off)),
             second |-> Mov(Stack(ins.src.off), Register("R10"))] >>
    ELSE << >>

FixInstruction(n, ins) ==
    IF ins.op = "Cmp"
    THEN << [i |-> n, first |-> Mov(ins.first, Register("R10")),
             second |-> Cmp(Register("R10"), ins.second)] >>
    ELSE IF ins.op = "Mov" /\ ins.src.k = "Stack" /\ ins.dst.k = "Stack"
    THEN << [i |-> n, first |-> Mov(Stack(ins.src.off), Register("R10")),
             second |-> Mov(Register("R10"), Stack(ins.dst.off))] >>
    ELSE << >>

\* the legalizer's loop: to_be_replaced
FixScan(instructions) ==
    LET scanned[m \in 0 .. Len(instructions)] ==
            IF m = 0 THEN << >>
            ELSE scanned[m - 1] \o FixInstruction(m, instructions[m])
    IN  scanned[Len(instructions)]

\* a patch loop that applies the entries from the lowest index to the highest
FixPatchForward(instructions, to_be_replaced) ==
    LET n == Len(to_be_replaced)
        patched[m \in 0 .. n] ==
            IF m = 0 THEN instructions
            ELSE CHOOSE next \in
                     { ReplaceWithTwoElements(vec,
                                              to_be_replaced[m].i,
                                              to_be_replaced[m].first,
                                              to_be_replaced[m].second) :
                       vec \in { patched[m - 1] } } : TRUE
    IN  patched[n]

\* `for (i, ins) in to_be_replaced.iter().rev()`: the list after the entries
\* Len, Len - 1, .., 1 have been applied
FixPatch(instructions, to_be_replaced) ==
    LET n == Len(to_be_replaced)
        patched[m \in 0 .. n] ==
            IF m = 0 THEN instructions
            ELSE CHOOSE next \in
                     { ReplaceWithTwoElements(vec,
                                              to_be_replaced[n + 1 - m].i,
                                              to_be_replaced[n + 1 - m].first,
                                              to_be_replaced[n + 1 - m].second) :
                       vec \in { patched[m - 1] } } : TRUE
    IN  patched[n]

\* the legalizer on the list that starts with AllocateStack
FixAll(instructions) == FixPatch(instructions, FixScan(instructions))

\* impl From<AsmProgramWithReplacedPseudoRegisters> for AsmProgramWithFixedInstructions
FixedFrom(name, instructions0, stack) ==
    [name |-> name,
     instructions |-> FixAll(<< AllocateStack(stack) >> \o instructions0)]

-----------------------------------------------------------------------------
(* assembly.rs: the emitter.  A line of text is its mnemonic (or its label *)
(* or directive) and the texts of its operands, in the order printed.      *)

Line(mn, args) == [mn |-> mn, args |-> args]

\* impl fmt::Display for AsmRegistry
DisplayRegistry(r) ==
    CASE r = "DX" -> "%edx"
      [] r = "AX" -> "%eax"
      [] r = "R10" -> "%r10d"
      [] r = "R11" -> "%r11d"

\* impl fmt::Display for Operand
DisplayOperand(o) ==
    CASE o.k = "Register" -> DisplayRegistry(o.reg)
      [] o.k = "Imm" -> "$" \o ToString(o.imm)
      [] o.k = "Stack" -> ToString(o.off) \o "(%rbp)"
      [] o.k = "Pseudo" -> "PSEUDO_" \o o.id

\* impl fmt::Display for ConditionCode
DisplayConditionCode(c) ==
    CASE c = "E" -> "e"
      [] c = "NE" -> "ne"
      [] c = "G" -> "g"
      [] c = "GE" -> "ge"
      [] c = "L" -> "l"
      [] c = "LE" -> "le"

\* impl fmt::Display for AsmUnaryOperator
DisplayUnaryOperator(o) ==
    CASE o = "Neg" -> "negl"
      [] o = "Complement" -> "notl"
      [] o = "Not" -> "dddd"

\* impl fmt::Display for AsmBinaryOperator
DisplayBinaryOperator(o) ==
    CASE o = "Add" -> "addl"
      [] o = "Sub" -> "subl"
      [] o = "Mult" -> "imull"

\* the lines generate prints for one instruction
GenerateInstruction(ins) ==
    CASE ins.op = "Mov" ->
            << Line("movl", << DisplayOperand(ins.src), DisplayOperand(ins.dst) >>) >>
      [] ins.op = "Unary" ->
            << Line(DisplayUnaryOperator(ins.uop), << DisplayOperand(ins.operand) >>) >>
      [] ins.op = "AllocateStack" ->
            << Line("subq", << "$" \o ToString(ins.bytes), "%rsp" >>) >>
      [] ins.op = "Return" ->
            << Line("movq", << "%rbp", "%rsp" >>),
               Line("popq", << "%rbp" >>),
               Line("ret", << >>) >>
      [] ins.op = "Cdq" -> << Line("cdq", << >>) >>
      [] ins.op = "Binary" ->
            << Line(DisplayBinaryOperator(ins.bop),
                    << DisplayOperand(ins.first), DisplayOperand(ins.second) >>) >>
      [] ins.op = "Idiv" -> << Line("idivl", << DisplayOperand(ins.operand) >>) >>
      [] ins.op = "Cmp" ->
            << Line("cmpl", << DisplayOperand(ins.second), DisplayOperand(ins.first) >>) >>
      [] ins.op = "Jmp" -> << Line("jmp", << ".L" \o ins.target >>) >>
      [] ins.op = "JmpCC" ->
            << Line("j" \o DisplayConditionCode(ins.cc), << ".L" \o ins.target >>) >>
      [] ins.op = "SetCC" ->
            << Line("set" \o DisplayConditionCode(ins.cc),
                    << DisplayOperand(ins.operand) >>) >>
      [] ins.op = "Label" -> << Line(".L" \o ins.target \o ":", << >>) >>

\* generate's loop over the instructions
GenerateBody(instructions) ==
    LET lines[m \in 0 .. Len(instructions)] ==
            IF m = 0 THEN << >>
            ELSE lines[m - 1] \o GenerateInstruction(instructions[m])
    IN  lines[Len(instructions)]

TargetPlatform == {"MacOsX64", "X64Linux"}
\* an emitter that prints the prologue in the macOS branch only
GenerateMacPrologue(function_def, target) ==
    (IF target = "MacOsX64"
     THEN << Line(".globl", << "_" \o function_def.name >>),
             Line("_" \o function_def.name \o ":", << >>),
             Line("push", << "%rbp" >>), Line("mov", << "%rsp", "%rbp" >>) >>
     ELSE << Line(".globl", << function_def.name >>),
             Line("." \o function_def.name \o ":", << >>) >>)
    \o GenerateBody(function_def.instructions)
    \o (IF target = "X64Linux"
        THEN << Line(".section", << ".note.GNU-stack", "\"\"", "@progbits" >>) >>
        ELSE << >>)

\* AsmProgramWithFixedInstructions::generate
Generate(function_def, target) ==
    (IF target = "MacOsX64"
     THEN << Line(".globl", << "_" \o function_def.name >>),
             Line("_" \o function_def.name \o ":", << >>) >>
     ELSE << Line(".globl", << function_def.name >>),
             Line("." \o function_def.name \o ":", << >>) >>)
    \o << Line("push", << "%rbp" >>), Line("mov", << "%rsp", "%rbp" >>) >>
    \o GenerateBody(function_def.instructions)
    \o (IF target = "X64Linux"
        THEN << Line(".section", << ".note.GNU-stack", "\"\"", "@progbits" >>) >>
        ELSE << >>)

-----------------------------------------------------------------------------
(* ast.rs: the program tree.                                               *)

FConstant(c) == [fk |-> "Constant", c |-> c]
FUnary(o, e) == [fk |-> "Unary", operator |-> o, expression |-> e]
FParented(e) == [fk |-> "ParentedExpression", expression |-> e]
Factor(f) == [ek |-> "Factor", factor |-> f]
Binary(l, o, r) == [ek |-> "Binary", left |-> l, operator |-> o, right |-> r]
\* Option<Expression>::None
NoExpression == [ek |-> "None"]

VariableDeclaration(n) == [sk |-> "VariableDeclaration", name |-> n]
ReturnStatement(e) == [sk |-> "ReturnStatement", expression |-> e]
Compound(v) == [sk |-> "Compound", statements |-> v]

FunctionDeclaration(n, b) == [nk |-> "FunctionDeclaration", name |-> n, body |-> b]
StatementNode(s) == [nk |-> "Statement", statement |-> s]

-----------------------------------------------------------------------------
(* lexer.rs: the tokens.  parser.rs: the parser.  A call yields status     *)
(* "Ok", "Err" or "Panic", the cursor self.pos after the call (the number  *)
(* of tokens consumed), the value of an Ok, and for a ParserError its      *)
(* error type and the index of the token whose span it carries.            *)

Tok(t) == [t |-> t]
TokIdentifier(n) == [t |-> "Identifier", name |-> n]
TokConstant(c) == [t |-> "Constant", c |-> c]

\* UnaryOperator::from_token: "None" for the other tokens
UnaryOperatorFromToken(t) ==
    CASE t = "Hyphen" -> "Negate"
      [] t = "Tilde" -> "Complement"
      [] OTHER -> "None"

\* impl TryFrom<Token> for BinaryOperator: "Err" for the other tokens
BinaryOperatorFromToken(t) ==
    CASE t = "Plus" -> "Add"
      [] t = "Slash" -> "Divide"
      [] t = "Hyphen" -> "Substract"
      [] t = "PercentSign" -> "Remainder"
      [] t = "Asteriks" -> "Multiply"
      [] t = "And" -> "And"
      [] t = "Or" -> "Or"
      [] t = "EqualTo" -> "Equal"
      [] t = "NotEqualTo" -> "NotEqual"
      [] t = "LessThan" -> "LessThan"
      [] t = "LessThanEqualTo" -> "LessOrEqual"
      [] t = "GreaterThan" -> "GreaterThan"
      [] t = "GreaterThanEqualTo" -> "GreaterOrEqual"
      [] OTHER -> "Err"

\* BinaryOperator::precedence
Precedence(o) ==
    CASE o \in {"Add", "Substract"} -> 45
      [] o \in {"Multiply", "Divide", "Remainder"} -> 50
      [] o = "And" -> 10
      [] o = "Or" -> 5
      [] o \in {"Equal", "NotEqual"} -> 30
      [] o \in {"LessThan", "LessOrEqual", "GreaterThan", "GreaterOrEqual"} -> 35

\* Statement::VariableDeclaration with initializer Some(e); VariableDeclaration
\* is the one with initializer None
InitializedDeclaration(n, e) ==
    [sk |-> "VariableDeclaration", name |-> n, initializer |-> e]

ParserOk(pos, value) ==
    [status |-> "Ok", pos |-> pos, value |-> value, error |-> "", at |-> 0]
\* an Err: a ParserError on the token at index `at`, or for the expression
\* functions a String, with at = 0
ParserErr(pos, error, at) ==
    [status |-> "Err", pos |-> pos, value |-> << >>, error |-> error, at |-> at]
ParserPanic(pos) ==
    [status |-> "Panic", pos |-> pos, value |-> << >>, error |-> "", at |-> 0]

\* `Err(self.error(self.peek().unwrap().clone(), error))`: unwrap panics when
\* the cursor is at the end of the tokens
PeekError(toks, pos, error) ==
    IF pos < Len(toks) THEN ParserErr(pos, error, pos + 1) ELSE ParserPanic(pos)

\* `Err(self.error(self.last().clone(), error))`: expect panics when there
\* is no token
LastError(toks, pos, error) ==
    IF Len(toks) > 0 THEN ParserErr(pos, error, Len(toks)) ELSE ParserPanic(pos)

\* Parser::check_token
CheckToken(toks, pos, t) == pos < Len(toks) /\ toks[pos + 1].t = t

\* advance without the test of the cursor against the number of tokens
AdvancePosUnbounded(toks, pos) == pos + 1

\* the cursor after Parser::advance
AdvancePos(toks, pos) == IF pos < Len(toks) THEN pos + 1 ELSE pos

\* `if let Some(Token::Identifier(name)) = self.advance()`
AdvancesToIdentifier(toks, pos) ==
    pos < Len(toks) /\ toks[pos + 1].t = "Identifier"

RECURSIVE ParseFactor(_, _)
RECURSIVE ParseBinaryExpression(_, _, _)
RECURSIVE BinaryLoop(_, _, _)

\* parse_factor's Hyphen | Tilde arm after the inner parse_factor returned
UnaryOf(operator, inner) ==
    IF inner.status = "Ok"
    THEN ParserOk(inner.pos, Factor(FUnary(operator, inner.value)))
    ELSE inner

\* parse_factor's OpenParenthesis arm after parse_expression returned: the
\* closing parenthesis is checked and left where it is
ParentedOf(toks, inner) ==
    IF CheckToken(toks, inner.pos, "CloseParenthesis")
    THEN IF inner.status = "Ok"
         THEN ParserOk(inner.pos, Factor(FParented(inner.value)))
         ELSE inner
    ELSE ParserErr(inner.pos, "", 0)

\* Parser::parse_factor
ParseFactor(toks, pos) ==
    IF pos >= Len(toks) THEN ParserErr(pos, "", 0)
    ELSE CASE toks[pos + 1].t = "Constant" ->
                 ParserOk(pos + 1, Factor(FConstant(toks[pos + 1].c)))
           [] toks[pos + 1].t \in {"Hyphen", "Tilde"} ->
                 CHOOSE r \in { UnaryOf(UnaryOperatorFromToken(toks[pos + 1].t),
                                        inner) :
                                inner \in { ParseFactor(toks, pos + 1) } } : TRUE
           [] toks[pos + 1].t = "OpenParenthesis" ->
                 CHOOSE r \in { ParentedOf(toks, inner) :
                                inner \in { ParseBinaryExpression(toks, pos + 1, 0) } } :
                     TRUE
           [] OTHER -> ParserErr(pos, "", 0)

\* parse_binary_expression's loop after the right operand was parsed
BinaryRight(toks, left, operator, min_precedence, right) ==
    IF right.status # "Ok" THEN right
    ELSE BinaryLoop(toks,
                    ParserOk(right.pos, Binary(left.value, operator, right.value)),
                    min_precedence)

\* the loop parsing the right operand at the operator's own precedence
BinaryLoopSamePrecedence(toks, left, min_precedence) ==
    IF left.pos >= Len(toks) THEN left
    ELSE LET operator == BinaryOperatorFromToken(toks[left.pos + 1].t)
         IN  IF operator = "Err" THEN left
             ELSE IF min_precedence > Precedence(operator) THEN left
             ELSE CHOOSE r \in
                      { BinaryRight(toks, left, operator, min_precedence, right) :
                        right \in { ParseBinaryExpression(toks, left.pos + 1,
                                                          Precedence(operator)) } } :
                      TRUE

\* parse_binary_expression's loop, with `left` parsed so far
BinaryLoop(toks, left, min_precedence) ==
    IF left.pos >= Len(toks) THEN left
    ELSE LET operator == BinaryOperatorFromToken(toks[left.pos + 1].t)
         IN  IF operator = "Err" THEN left
             ELSE IF min_precedence > Precedence(operator) THEN left
             ELSE CHOOSE r \in
                      { BinaryRight(toks, left, operator, min_precedence, right) :
                        right \in { ParseBinaryExpression(toks, left.pos + 1,
                                                          Precedence(operator) + 1) } } :
                      TRUE

\* Parser::parse_binary_expression
ParseBinaryExpression(toks, pos, min_precedence) ==
    CHOOSE r \in { IF left.status = "Ok"
                   THEN BinaryLoop(toks, left, min_precedence)
                   ELSE left :
                   left \in { ParseFactor(toks, pos) } } : TRUE

\* Parser::parse_expression
ParseExpression(toks, pos) == ParseBinaryExpression(toks, pos, 0)

\* parse_return_statement after expr was computed: `expr.unwrap_err()` panics
\* on an Ok that no semicolon follows
ReturnOf(toks, expr) ==
    IF expr.status = "Ok" /\ CheckToken(toks, expr.pos, "Semicolon")
    THEN ParserOk(expr.pos + 1, ReturnStatement(expr.value))
    ELSE IF expr.status = "Ok" THEN ParserPanic(expr.pos)
    ELSE PeekError(toks, expr.pos, "MissingReturnValue")

\* Parser::parse_return_statement, the cursor behind the return keyword
ParseReturnStatement(toks, pos) ==
    CHOOSE r \in { ReturnOf(toks, expr) :
                   expr \in { IF ~CheckToken(toks, pos, "Semicolon")
                              THEN ParseExpression(toks, pos)
                              ELSE ParserErr(pos, "TT", 0) } } : TRUE

\* parse_variable_declaration after the initializer expression was parsed
InitializerOf(toks, name, expression) ==
    IF expression.status = "Ok"
    THEN IF CheckToken(toks, expression.pos, "Semicolon")
         THEN ParserOk(expression.pos + 1,
                       InitializedDeclaration(name, expression.value))
         ELSE ParserErr(expression.pos, "ExpectedChar(';')", expression.pos)
    ELSE PeekError(toks, expression.pos, "ExpectedExpression")

\* Parser::parse_variable_declaration, the cursor behind the int keyword
ParseVariableDeclaration(toks, pos) ==
    IF ~AdvancesToIdentifier(toks, pos)
    THEN PeekError(toks, AdvancePos(toks, pos), "ExpectedVariableName")
    ELSE IF CheckToken(toks, pos + 1, "Semicolon")
    THEN ParserOk(pos + 2, VariableDeclaration(toks[pos + 1].name))
    ELSE CHOOSE r \in { InitializerOf(toks, toks[pos + 1].name, expression) :
                        expression \in { ParseExpression(toks, pos + 1) } } : TRUE

\* Parser::parse_statement
ParseStatement(toks, pos) ==
    IF CheckToken(toks, pos, "IntKeyword")
    THEN ParseVariableDeclaration(toks, pos + 1)
    ELSE IF CheckToken(toks, pos, "ReturnKeyWord")
    THEN ParseReturnStatement(toks, pos + 1)
    ELSE PeekError(toks, pos, "ExpectedStatement")

RECURSIVE CompoundLoop(_, _, _)
\* parse_compound_statement's loop, with `statements` pushed so far
CompoundLoop(toks, pos, statements) ==
    IF CheckToken(toks, pos, "CloseBrace") \/ pos >= Len(toks)
    THEN ParserOk(pos, Compound(statements))
    ELSE CHOOSE r \in { IF s.status = "Ok"
                        THEN CompoundLoop(toks, s.pos, Append(statements, s.value))
                        ELSE s :
                        s \in { ParseStatement(toks, pos) } } : TRUE

\* Parser::parse_compound_statement
ParseCompoundStatement(toks, pos) == CompoundLoop(toks, pos, << >>)

RECURSIVE SkipParameters(_, _)
\* parse_function's loop that skips to behind the closing parenthesis
SkipParameters(toks, pos) ==
    IF CheckToken(toks, pos, "CloseParenthesis") THEN ParserOk(pos + 1, << >>)
    ELSE IF pos < Len(toks) THEN SkipParameters(toks, pos + 1)
    ELSE LastError(toks, pos, "ExpectedChar(')')")

\* parse_function from the closing brace on; the return type and the
\* (always empty) parameters of the FunctionDecl are left out
FunctionEnd(toks, name, body) ==
    IF body.status # "Ok" THEN body
    ELSE IF CheckToken(toks, body.pos, "CloseBrace")
    THEN ParserOk(body.pos + 1, FunctionDeclaration(name, body.value))
    ELSE PeekError(toks, body.pos, "ExpectedChar('}')")

\* parse_function from the opening brace on
FunctionBody(toks, name, skipped) ==
    IF skipped.status # "Ok" THEN skipped
    ELSE IF ~CheckToken(toks, skipped.pos, "OpenBrace")
    THEN PeekError(toks, skipped.pos, "ExpectedChar('{')")
    ELSE CHOOSE r \in { FunctionEnd(toks, name, body) :
                        body \in { ParseCompoundStatement(toks, skipped.pos + 1) } } :
             TRUE

\* Parser::parse_function
ParseFunction(toks, pos) ==
    IF ~(CheckToken(toks, pos, "IntKeyword") \/ CheckToken(toks, pos, "VoidKeyWord"))
    THEN PeekError(toks, pos, "ExpectedTypeKeyword")
    ELSE IF ~AdvancesToIdentifier(toks, pos + 1)
    THEN PeekError(toks, AdvancePos(toks, pos + 1), "ExpectedFunctionName")
    ELSE IF ~CheckToken(toks, pos + 2, "OpenParenthesis")
    THEN PeekError(toks, pos + 2, "ExpectedChar('(')")
    ELSE CHOOSE r \in { FunctionBody(toks, toks[pos + 2].name, skipped) :
                        skipped \in { SkipParameters(toks, pos + 3) } } : TRUE

RECURSIVE FunctionsLoop(_, _, _)
\* parse's loop, with the functions pushed so far, and what follows it
FunctionsLoop(toks, pos, pushed) ==
    IF pos < Len(toks)
    THEN CHOOSE r \in { IF fun.status = "Ok"
                        THEN FunctionsLoop(toks, fun.pos, Append(pushed, fun.value))
                        ELSE fun :
                        fun \in { ParseFunction(toks, pos) } } : TRUE
    ELSE IF Len(pushed) = 0 THEN LastError(toks, pos, "NoValidFunctions")
    ELSE ParserOk(pos, pushed)

\* Parser::parse on a fresh Parser: an Ok holds the nodes of AstNode::Program
ParserParse(toks) == FunctionsLoop(toks, 0, << >>)

-----------------------------------------------------------------------------
(* tacky.rs: the IR builder.  A call yields status "Ok", "Err" or "Panic", *)
(* the instructions built, and the counter after the call.                 *)

\* get_tmp_var without `self.counter += 1`
GetTmpVarStuck(c) == [id |-> "tmp." \o ToString(c), counter |-> c]

\* Tacky::get_tmp_var: the name minted and the counter afterwards
GetTmpVar(c) == [id |-> "tmp." \o ToString(c), counter |-> c + 1]

\* parse_unary pushing the outer instruction before the inner ones
UnaryAfterPreorder(inner, unary_operator, temp_var, dst_name) ==
    IF inner.status # "Ok" THEN inner
    ELSE [status |-> "Ok",
          instructions |->
              << IrUnary(unary_operator, Var(temp_var), Var(dst_name)) >>
                  \o inner.instructions,
          counter |-> inner.counter]

\* parse_unary after the recursive call yielded inner: `?`, then the push
UnaryAfter(inner, unary_operator, temp_var, dst_name) ==
    IF inner.status # "Ok" THEN inner
    ELSE [status |-> "Ok",
          instructions |->
              Append(inner.instructions,
                     IrUnary(unary_operator, Var(temp_var), Var(dst_name))),
          counter |-> inner.counter]

RECURSIVE ParseUnary(_, _, _, _)
\* parse_unary on Factor::Unary, with temp_var the name just minted
ParseUnaryInner(temp_var, unary_operator, factor, dst_name) ==
    CHOOSE r \in { UnaryAfter(inner, unary_operator, temp_var.id, dst_name) :
                   inner \in { ParseUnary(temp_var.counter, factor.operator,
                                          factor.expression, temp_var.id) } } : TRUE

\* Tacky::parse_unary
ParseUnary(c, unary_operator, expression, dst_name) ==
    IF expression.ek = "Binary"
    THEN [status |-> "Panic", instructions |-> << >>, counter |-> c]
    ELSE CASE expression.factor.fk = "Constant" ->
                [status |-> "Ok",
                 instructions |->
                     << IrUnary(unary_operator, Constant(expression.factor.c),
                                Var(dst_name)) >>,
                 counter |-> c]
           [] expression.factor.fk = "Unary" ->
                ParseUnaryInner(GetTmpVar(c), unary_operator, expression.factor,
                                dst_name)
           [] expression.factor.fk = "ParentedExpression" ->
                [status |-> "Panic", instructions |-> << >>, counter |-> c]

\* parse_return after parse_unary yielded u: the match on it, then the push
ReturnAfter(u, id) ==
    IF u.status # "Ok" THEN u
    ELSE [status |-> "Ok",
          instructions |-> Append(u.instructions, IrReturn(Var(id))),
          counter |-> u.counter]

\* parse_return on Factor::Unary, with id the name just minted
ParseReturnUnary(id, factor) ==
    CHOOSE r \in { ReturnAfter(u, id.id) :
                   u \in { ParseUnary(id.counter, factor.operator,
                                      factor.expression, id.id) } } : TRUE

RECURSIVE ParseReturn(_, _)
\* Tacky::parse_return
ParseReturn(c, expression) ==
    CASE expression.ek = "None" ->
            [status |-> "Err", instructions |-> << >>, counter |-> c]
      [] expression.ek = "Binary" ->
            [status |-> "Ok", instructions |-> << >>, counter |-> c]
      [] expression.ek = "Factor" ->
            CASE expression.factor.fk = "Constant" ->
                    [status |-> "Ok",
                     instructions |-> << IrReturn(Constant(expression.factor.c)) >>,
                     counter |-> c]
              [] expression.factor.fk = "Unary" ->
                    ParseReturnUnary(GetTmpVar(c), expression.factor)
              [] expression.factor.fk = "ParentedExpression" ->
                    ParseReturn(c, expression.factor.expression)

\* a loop body that skips the statements it does not lower
ParseCompoundElementSkipping(c, el) ==
    IF el.sk = "ReturnStatement" THEN ParseReturn(c, el.expression)
    ELSE [status |-> "Ok", instructions |-> << >>, counter |-> c]

\* one iteration of parse's loop over a Compound body
ParseCompoundElement(c, el) ==
    IF el.sk = "ReturnStatement" THEN ParseReturn(c, el.expression)
    ELSE [status |-> "Panic", instructions |-> << >>, counter |-> c]

\* `self.result.instruction.extend(result)` after an iteration yielded r, or
\* the end of the loop by `?` or todo!()
CompoundPush(acc, r) ==
    [status |-> r.status,
     instructions |-> IF r.status = "Ok" THEN acc \o r.instructions ELSE acc,
     counter |-> r.counter]

\* the loop after one more iteration, on el
CompoundStep(prev, el) ==
    IF prev.status # "Ok" THEN prev
    ELSE CompoundPush(prev.instructions, ParseCompoundElement(prev.counter, el))

\* parse's loop over a Compound body
ParseCompound(c, vec) ==
    LET step[m \in 0 .. Len(vec)] ==
            IF m = 0 THEN [status |-> "Ok", instructions |-> << >>, counter |-> c]
            ELSE CHOOSE next \in { CompoundStep(prev, vec[m]) :
                                    prev \in { step[m - 1] } } : TRUE
    IN  step[Len(vec)]

\* parse's match on the function body
ParseBody(c, body) ==
    CASE body.sk = "VariableDeclaration" ->
            [status |-> "Panic", instructions |-> << >>, counter |-> c]
      [] body.sk = "ReturnStatement" -> ParseReturn(c, body.expression)
      [] body.sk = "Compound" -> ParseCompound(c, body.statements)

\* what parse leaves in self.result and self.counter, and its status
ParsedAs(name, r) ==
    [status |-> r.status,
     result |-> [identifier |-> name, instruction |-> r.instructions],
     counter |-> r.counter]

\* parse lowering the last declaration of the program instead of the first
TackyParseLast(ns, c, old) ==
    IF Len(ns) = 0 \/ ns[Len(ns)].nk # "FunctionDeclaration"
    THEN [status |-> "Err", result |-> old, counter |-> c]
    ELSE ParsedAs(ns[Len(ns)].name, ParseBody(c, ns[Len(ns)].body))

\* Tacky::parse: status, the FunctionDefinition left in self.result, and the
\* counter left in self.counter
TackyParse(ns, c, old) ==
    IF Len(ns) = 0 \/ ns[1].nk # "FunctionDeclaration"
    THEN [status |-> "Err", result |-> old, counter |-> c]
    ELSE ParsedAs(ns[1].name, ParseBody(c, ns[1].body))

\* FunctionDefinition::default
FunctionDefinitionDefault == [identifier |-> "", instruction |-> << >>]

-----------------------------------------------------------------------------
(* The inputs.                                                             *)

\* integer literals of the program trees
AstConstants == {1, 2, 3}
\* ast.rs: UnaryOperator
AstUnaryOperators == {"Complement", "Negate"}
\* the binary operators of the program trees (the builder never reads them)
AstBinaryOperators == {"Add", "Multiply", "Equal"}

RECURSIVE ExpressionsOfSize(_)
\* the expressions made of exactly n constructors
ExpressionsOfSize(n) ==
    IF n = 1 THEN {Factor(FConstant(c)) : c \in AstConstants}
    ELSE {Factor(FUnary(o, e)) : o \in AstUnaryOperators, e \in ExpressionsOfSize(n - 1)}
         \cup {Factor(FParented(e)) : e \in ExpressionsOfSize(n - 1)}
         \cup UNION {{Binary(l, o, r) : l \in ExpressionsOfSize(i),
                                        o \in AstBinaryOperators,
                                        r \in ExpressionsOfSize(n - 1 - i)}
                     : i \in 1 .. (n - 2)}

Expressions(n) == UNION {ExpressionsOfSize(i) : i \in 1 .. n}

\* the statements of the longer Compound bodies
ShortStatements ==
    {ReturnStatement(e) : e \in Expressions(2) \cup {NoExpression}}
    \cup {VariableDeclaration("x"), Compound(<< >>)}

RECURSIVE StatementLists(_)
\* the lists of exactly n short statements
StatementLists(n) ==
    IF n = 0 THEN {<< >>}
    ELSE {Append(l, st) : l \in StatementLists(n - 1), st \in ShortStatements}

\* the function bodies: one return of an expression of at most size
\* constructors, or at most stmts short statements
Bodies(size, stmts) ==
    {Compound(<< ReturnStatement(e) >>) : e \in Expressions(size)}
    \cup {Compound(l) : l \in UNION {StatementLists(n) : n \in 0 .. stmts}}
    \cup {ReturnStatement(e) : e \in Expressions(2)}
    \cup {VariableDeclaration("x")}

\* the programs handed to Tacky::from_program_node
Programs(size, stmts) ==
    {<< FunctionDeclaration("main", b) >> : b \in Bodies(size, stmts)}
    \cup {<< FunctionDeclaration("main", b), FunctionDeclaration("f", c) >> :
             b \in {Compound(<< ReturnStatement(Factor(FConstant(1))) >>)},
             c \in {Compound(<< >>), VariableDeclaration("x")}}
    \cup {<< >>, << StatementNode(ReturnStatement(NoExpression)) >>}

\* the tokens of `int main(void) {`
FunctionHeader ==
    << Tok("IntKeyword"), TokIdentifier("main"), Tok("OpenParenthesis"),
       Tok("VoidKeyWord"), Tok("CloseParenthesis"), Tok("OpenBrace") >>

\* the tokens the bodies are made of
BodyTokens ==
    {Tok("ReturnKeyWord"), Tok("Semicolon"), TokConstant(1), TokConstant(2),
     Tok("Hyphen"), Tok("Asteriks"), Tok("OpenParenthesis"),
     Tok("CloseParenthesis"), Tok("IntKeyword"), TokIdentifier("x")}

RECURSIVE TokenSeqs(_)
\* the sequences of exactly n body tokens
TokenSeqs(n) ==
    IF n = 0 THEN {<< >>}
    ELSE {Append(l, t) : l \in TokenSeqs(n - 1), t \in BodyTokens}

\* the token lists handed to Parser::new: a function header, at most len
\* body tokens and, or not, the closing brace; the header cut short; and two
\* functions
TokenLists(len) ==
    {FunctionHeader \o b \o e :
        b \in UNION {TokenSeqs(n) : n \in 0 .. len},
        e \in {<< >>, << Tok("CloseBrace") >>}}
    \cup {SubSeq(FunctionHeader, 1, n) : n \in 0 .. 5}
    \cup {FunctionHeader \o << Tok("CloseBrace") >> \o FunctionHeader \o e :
             e \in {<< >>, << Tok("CloseBrace") >>}}

\* the tokens of `int main(void) { return e; }`
ReturnTokens(e) ==
    FunctionHeader \o << Tok("ReturnKeyWord") >> \o e
        \o << Tok("Semicolon"), Tok("CloseBrace") >>

\* the token lists the lexer returns to the driver
DriverTokenLists ==
    {ReturnTokens(<< TokConstant(2) >>),
     ReturnTokens(<< Tok("Hyphen"), TokConstant(2) >>),
     ReturnTokens(<< Tok("Tilde"), Tok("Hyphen"), TokConstant(2) >>),
     ReturnTokens(<< TokConstant(1), Tok("Plus"), TokConstant(2) >>),
     FunctionHeader \o << Tok("ReturnKeyWord"), TokConstant(2), Tok("CloseBrace") >>,
     FunctionHeader \o << Tok("IntKeyword"), TokIdentifier("x"), Tok("Semicolon"),
                          Tok("CloseBrace") >>,
     FunctionHeader \o << Tok("Semicolon"), Tok("CloseBrace") >>}

\* what Lexer::from_path and Lexer::tokenize yield: an error, or the tokens
LexResults ==
    {[status |-> "Err", tokens |-> << >>]}
    \cup {[status |-> "Ok", tokens |-> l] : l \in DriverTokenLists}

\* the names Tacky::get_tmp_var mints
TmpName(n) == "tmp." \o ToString(n)

\* integer literals of the IR lists handed directly to the selector
IrConstants == {2}
IrLabels == {"end"}

\* one binary operator for each arm of parse_instruction's match on it:
\* Divide, Remainder, a comparison, an arithmetic operator, and an operator
\* with neither a ConditionCode nor an AsmBinaryOperator
IrBinaryOperators == {"Divide", "Remainder", "LessThan", "Add", "And"}

\* the values an instruction may read when k temporaries are defined
IrValues(k) ==
    {Constant(c) : c \in IrConstants} \cup {Var(TmpName(j)) : j \in 0 .. (k - 1)}

\* the IR instructions that may follow the definition of k temporaries: every
\* dest is the fresh temporary tmp.k
IrInstructions(k) ==
    {IrReturn(v) : v \in IrValues(k)}
    \cup {IrUnary(o, v, Var(TmpName(k))) : o \in UnaryOperators, v \in IrValues(k)}
    \cup {IrBinary(o, v, w, Var(TmpName(k))) :
             o \in IrBinaryOperators, v \in IrValues(k), w \in IrValues(k)}
    \cup {IrCopy(v, Var(TmpName(k))) : v \in IrValues(k)}
    \cup {IrJump(l) : l \in IrLabels}
    \cup {IrLabel(l) : l \in IrLabels}
    \cup {IrJumpIfZero(v, l) : v \in IrValues(k), l \in IrLabels}
    \cup {IrJumpIfNotZero(v, l) : v \in IrValues(k), l \in IrLabels}

\* the number of temporaries a list defines
NumDests(l) == Cardinality({n \in 1 .. Len(l) : l[n].ik \in {"Unary", "Binary", "Copy"}})

RECURSIVE IrListsOfLen(_)
\* the IR lists of exactly n instructions
IrListsOfLen(n) ==
    IF n = 0 THEN {<< >>}
    ELSE UNION {{Append(l, i) : i \in IrInstructions(NumDests(l))}
                : l \in IrListsOfLen(n - 1)}

\* the IR lists of 1 to len instructions
IrLists(len) == UNION {IrListsOfLen(n) : n \in 1 .. len}

\* operands of the arithmetic and comparison runs
I32Samples == {MinI32, -7, -1, 0, 3, 5, 6, MaxI32}

\* Binary(op, a, b, tmp.0) followed by Return(tmp.0)
BinaryRuns ==
    {<< IrBinary(o, Constant(a), Constant(b), Var(TmpName(0))),
        IrReturn(Var(TmpName(0))) >> :
        o \in ArithmeticOperators \cup ComparisonOperators,
        a \in I32Samples, b \in I32Samples}

\* the names requested from the PseudoRegistryHash
RegistryNames == {TmpName(n) : n \in 0 .. (NumNames - 1)}

-----------------------------------------------------------------------------
(* The reference machine: 32-bit registers and frame slots, executing the  *)
(* emitted lines in AT&T operand order (source first, destination last).   *)

\* what uninitialized registers, slots and flags may hold
Garbage == {0, -1}

\* the frame slots of the machine
SlotOffsets == {-4 * n : n \in 1 .. (MaxIR + MaxSize + 2)}

\* every operand the emitter can have printed
OperandUniverse ==
    {Register(r) : r \in AsmRegistry}
    \cup {Imm(i) : i \in AstConstants \cup IrConstants \cup I32Samples \cup {0}}
    \cup {Stack(o) : o \in SlotOffsets}
    \cup {Pseudo(TmpName(n)) : n \in 0 .. (MaxIR + MaxSize + 2)}

\* the operand a printed operand text stands for
OperandOfText(t) == CHOOSE o \in OperandUniverse : DisplayOperand(o) = t

\* the machine can read / write the operand
Readable(t) == OperandOfText(t).k # "Pseudo"
Writable(t) == OperandOfText(t).k \in {"Register", "Stack"}

\* the value of an operand
Read(c, t) ==
    LET o == OperandOfText(t)
    IN  CASE o.k = "Imm" -> o.imm
          [] o.k = "Register" -> c.regs[o.reg]
          [] o.k = "Stack" -> c.mem[o.off]

\* the machine after a 32-bit store to an operand
Write(c, t, v) ==
    LET o == OperandOfText(t)
    IN  IF o.k = "Register" THEN [c EXCEPT !.regs[o.reg] = v]
        ELSE [c EXCEPT !.mem[o.off] = v]

\* a 32-bit value with its low byte replaced by b (b is 0 or 1)
SetLowByte(v, b) == (v - (v % 256)) + b

\* the condition code that a set<cc> or j<cc> mnemonic names
ConditionOfText(prefix, mn) ==
    CHOOSE c \in {"E", "NE", "G", "GE", "L", "LE", "none"} :
        IF c = "none"
        THEN \A d \in {"E", "NE", "G", "GE", "L", "LE"} :
                 prefix \o DisplayConditionCode(d) # mn
        ELSE prefix \o DisplayConditionCode(c) = mn

\* a condition code on the flags left by `cmpl s, d` (flags of d - s)
ConditionHolds(cc, flags) ==
    CASE cc = "E" -> flags.eq
      [] cc = "NE" -> ~flags.eq
      [] cc = "L" -> flags.lt
      [] cc = "LE" -> flags.lt \/ flags.eq
      [] cc = "G" -> ~flags.lt /\ ~flags.eq
      [] cc = "GE" -> ~flags.lt

Fault(c) == [c EXCEPT !.status = "fault"]

\* the line a jump to label l continues at; 0 when no line defines l
LabelLine(lines, l) ==
    IF \E n \in 1 .. Len(lines) : lines[n].mn = l \o ":"
    THEN CHOOSE n \in 1 .. Len(lines) :
             /\ lines[n].mn = l \o ":"
             /\ \A m \in 1 .. (n - 1) : lines[m].mn # l \o ":"
    ELSE 0

\* the machine after executing line c.pc of lines
Execute(c, lines) ==
    LET l == lines[c.pc]
        a == l.args
        next == [c EXCEPT !.pc = @ + 1]
        setcc == ConditionOfText("set", l.mn)
        jcc == ConditionOfText("j", l.mn)
    IN  CASE l.mn = "movl" ->
                IF Readable(a[1]) /\ Writable(a[2])
                THEN Write(next, a[2], Read(c, a[1])) ELSE Fault(c)
          [] l.mn = "negl" ->
                IF Writable(a[1]) THEN Write(next, a[1], WrapNeg(Read(c, a[1])))
                ELSE Fault(c)
          [] l.mn = "notl" ->
                IF Writable(a[1]) THEN Write(next, a[1], (-Read(c, a[1])) - 1)
                ELSE Fault(c)
          [] l.mn = "addl" ->
                IF Readable(a[1]) /\ Writable(a[2])
                THEN Write(next, a[2], WrapAdd(Read(c, a[2]), Read(c, a[1])))
                ELSE Fault(c)
          [] l.mn = "subl" ->
                IF Readable(a[1]) /\ Writable(a[2])
                THEN Write(next, a[2], WrapSub(Read(c, a[2]), Read(c, a[1])))
                ELSE Fault(c)
          [] l.mn = "imull" ->
                IF Readable(a[1]) /\ Writable(a[2])
                THEN Write(next, a[2], WrapMul(Read(c, a[2]), Read(c, a[1])))
                ELSE Fault(c)
          [] l.mn = "cdq" ->
                [next EXCEPT !.regs["DX"] = IF c.regs["AX"] < 0 THEN -1 ELSE 0]
          [] l.mn = "idivl" ->
                \* the dividend is edx:eax; only its sign-extended form is modelled
                IF /\ Readable(a[1])
                   /\ c.regs["DX"] = (IF c.regs["AX"] < 0 THEN -1 ELSE 0)
                   /\ ~DivTraps(c.regs["AX"], Read(c, a[1]))
                THEN [next EXCEPT
                        !.regs["AX"] = TruncDiv(c.regs["AX"], Read(c, a[1])),
                        !.regs["DX"] = TruncRem(c.regs["AX"], Read(c, a[1]))]
                ELSE Fault(c)
          [] l.mn = "cmpl" ->
                IF Readable(a[1]) /\ Readable(a[2])
                THEN [next EXCEPT !.flags = [eq |-> Read(c, a[2]) = Read(c, a[1]),
                                             lt |-> Read(c, a[2]) < Read(c, a[1])]]
                ELSE Fault(c)
          [] setcc # "none" ->
                IF Writable(a[1])
                THEN Write(next, a[1],
                           SetLowByte(Read(c, a[1]),
                                      IF ConditionHolds(setcc, c.flags) THEN 1 ELSE 0))
                ELSE Fault(c)
          [] l.mn = "jmp" ->
                IF LabelLine(lines, a[1]) = 0 THEN Fault(c)
                ELSE [c EXCEPT !.pc = LabelLine(lines, a[1])]
          [] jcc # "none" ->
                IF LabelLine(lines, a[1]) = 0 THEN Fault(c)
                ELSE IF ConditionHolds(jcc, c.flags)
                THEN [c EXCEPT !.pc = LabelLine(lines, a[1])]
                ELSE next
          [] l.mn = "ret" -> [c EXCEPT !.status = "returned", !.ret = c.regs["AX"]]
          [] l.mn = "dddd" -> Fault(c)
          \* directives, labels and the frame instructions push, mov, subq,
          \* movq, popq: no 32-bit register or slot changes
          [] OTHER -> next

\* the machine before the program is loaded
CpuOff ==
    [status |-> "off", pc |-> 0,
     regs |-> [r \in AsmRegistry |-> 0],
     mem |-> [o \in SlotOffsets |-> 0],
     flags |-> [eq |-> FALSE, lt |-> FALSE],
     ret |-> 0]

-----------------------------------------------------------------------------
(* The driver (src/src/bin/ulang_driver.rs) and the machine, step by step. *)

NoAsm == [name |-> "", instructions |-> << >>]

\* struct UlangDriver: the four flags, and `self.file.exists()`
Options ==
    [lex : BOOLEAN, parse : BOOLEAN, codegen : BOOLEAN, tacky : BOOLEAN,
     exists : BOOLEAN]
NoFlags ==
    [lex |-> FALSE, parse |-> FALSE, codegen |-> FALSE, tacky |-> FALSE,
     exists |-> TRUE]

\* the number of flags given: is_valid's counter
FlagsGiven(o) ==
    (IF o.lex THEN 1 ELSE 0) + (IF o.parse THEN 1 ELSE 0)
        + (IF o.codegen THEN 1 ELSE 0) + (IF o.tacky THEN 1 ELSE 0)

\* UlangDriver::is_valid
IsValid(o) == FlagsGiven(o) <= 1 /\ o.exists

\* no parser has run
NoAst == [status |-> "None", pos |-> 0, value |-> << >>, error |-> "", at |-> 0]

\* the driver process while main runs: nothing written, gcc not started
Running == [exited |-> FALSE, code |-> 0, written |-> FALSE, gcc |-> FALSE]

\* the process after exit(code), after main returned (0 for Ok, 1 for Err),
\* or after a panic (101)
Exited(o, code) == [o EXCEPT !.exited = TRUE, !.code = code]
\* a driver that does not look at the flag
ExitIfNever(o, flag) == o

\* `if flag { exit(0); }`
ExitIf(o, flag) == IF flag THEN Exited(o, 0) ELSE o
NoGet == [id |-> "", ret |-> 0]

\* everything but the compiler's input, before the first stage has run
Idle ==
    /\ counter = 0
    /\ result = FunctionDefinitionDefault
    /\ asm = NoAsm
    /\ stackSize = 0
    /\ hasher = PseudoRegistryHashNew
    /\ lastGet = NoGet
    /\ firstGets = << >>
    /\ platform = "none"
    /\ text = << >>
    /\ cpu = CpuOff
    /\ outcome = Running

\* a run without flags whose lexer and parser are not looked at
NoFrontEnd ==
    /\ opt = NoFlags
    /\ tokens = << >>
    /\ ast = NoAst

\* Tacky::from_program_node has built the Tacky of a program
Init ==
    /\ nodes \in Programs(MaxSize, MaxStmts)
    /\ program = FunctionDefinitionDefault
    /\ stage = "ast"
    /\ NoFrontEnd
    /\ Idle

\* a TackyProgram is handed to the selector
InitBackend ==
    /\ nodes = << >>
    /\ program \in {[identifier |-> "main", instruction |-> l] : l \in IrLists(MaxIR)}
    /\ stage = "tacky"
    /\ NoFrontEnd
    /\ Idle

\* the TackyProgram of one binary operation on two constants
InitArith ==
    /\ nodes = << >>
    /\ program \in {[identifier |-> "main", instruction |-> l] : l \in BinaryRuns}
    /\ stage = "tacky"
    /\ NoFrontEnd
    /\ Idle

\* a fresh PseudoRegistryHash
InitRegistry ==
    /\ nodes = << >>
    /\ program = FunctionDefinitionDefault
    /\ stage = "registry"
    /\ NoFrontEnd
    /\ Idle

\* main is entered with the parsed command line
InitDriver ==
    /\ opt \in Options
    /\ tokens = << >>
    /\ ast = NoAst
    /\ nodes = << >>
    /\ program = FunctionDefinitionDefault
    /\ stage = "start"
    /\ Idle

\* a Parser has been made of a token list
InitParser ==
    /\ opt = NoFlags
    /\ tokens \in TokenLists(MaxTokens)
    /\ ast = NoAst
    /\ nodes = << >>
    /\ program = FunctionDefinitionDefault
    /\ stage = "lexed"
    /\ Idle

\* main: `if !opt.is_valid() { .. exit(1); }`
Validate ==
    /\ stage = "start"
    /\ ~outcome.exited
    /\ stage' = IF IsValid(opt) THEN "valid" ELSE "invalid"
    /\ outcome' = IF IsValid(opt) THEN outcome ELSE Exited(outcome, 1)
    /\ UNCHANGED <<nodes, counter, result, program, asm, stackSize, hasher,
                   lastGet, firstGets, platform, text, cpu, opt, tokens, ast>>

\* what main holds after the lexer returned r: an Err leaves main by `?`
LexTo(r) ==
    /\ tokens' = r.tokens
    /\ stage' = IF r.status = "Ok" THEN "lexed" ELSE "lex_err"
    /\ outcome' = IF r.status = "Ok" THEN ExitIf(outcome, opt.lex)
                  ELSE Exited(outcome, 1)

\* main: Lexer::from_path(..)?, lexer.tokenize()?, and the exit on --lex
Lex ==
    /\ stage = "valid"
    /\ ~outcome.exited
    /\ \E r \in LexResults : LexTo(r)
    /\ UNCHANGED <<nodes, counter, result, program, asm, stackSize, hasher,
                   lastGet, firstGets, platform, text, cpu, opt, ast>>

\* what main holds after parser.parse() returned r, or panicked: an Err
\* leaves main by `?`
ParseTokensTo(r) ==
    /\ ast' = r
    /\ stage' = CASE r.status = "Ok" -> "parsed"
                  [] r.status = "Err" -> "parse_err"
                  [] r.status = "Panic" -> "panic"
    /\ outcome' = CASE r.status = "Ok" -> ExitIf(outcome, opt.parse)
                    [] r.status = "Err" -> Exited(outcome, 1)
                    [] r.status = "Panic" -> Exited(outcome, 101)

\* main: Parser::new(tokens, ..), parser.parse()?, and the exit on --parse
ParseTokens ==
    /\ stage = "lexed"
    /\ ~outcome.exited
    /\ ParseTokensTo(ParserParse(tokens))
    /\ UNCHANGED <<nodes, counter, result, program, asm, stackSize, hasher,
                   lastGet, firstGets, platform, text, cpu, opt, tokens>>

\* main: Tacky::from_program_node(&ast).unwrap()
FromProgramNode ==
    /\ stage = "parsed"
    /\ ~outcome.exited
    /\ nodes' = ast.value
    /\ stage' = "ast"
    /\ UNCHANGED <<counter, result, program, asm, stackSize, hasher, lastGet,
                   firstGets, platform, text, cpu, opt, tokens, ast, outcome>>

\* what main holds after tacky.parse() returned r, or panicked
ParseTo(r) ==
    /\ counter' = r.counter
    /\ result' = r.result
    /\ program' = IF r.status = "Ok" THEN r.result ELSE program
    /\ stage' = CASE r.status = "Ok" -> "tacky"
                  [] r.status = "Err" -> "tacky_err"
                  [] r.status = "Panic" -> "panic"
    /\ outcome' = IF r.status = "Ok" THEN ExitIf(outcome, opt.tacky)
                  ELSE Exited(outcome, 101)

\* main: tacky.parse().unwrap(), and the exit on --tacky
Parse ==
    /\ stage = "ast"
    /\ ~outcome.exited
    /\ ParseTo(TackyParse(nodes, counter, result))
    /\ UNCHANGED <<nodes, asm, stackSize, hasher, lastGet, firstGets, platform,
                   text, cpu, opt, tokens, ast>>

\* main going on with what the selector had pushed when it panicked
SelectToPartial(a) ==
    /\ asm' = [name |-> a.name, instructions |-> a.instructions]
    /\ stage' = "asm"
    /\ outcome' = outcome

\* what main holds after the selector returned a, or panicked
SelectTo(a) ==
    /\ asm' = IF a.panic THEN asm
              ELSE [name |-> a.name, instructions |-> a.instructions]
    /\ stage' = IF a.panic THEN "panic" ELSE "asm"
    /\ outcome' = IF a.panic THEN Exited(outcome, 101) ELSE outcome

\* main: let asm_ast: AsmProgram = (&result).into()
Select ==
    /\ stage = "tacky"
    /\ ~outcome.exited
    /\ SelectTo(AsmProgramFrom(program))
    /\ UNCHANGED <<nodes, counter, result, program, stackSize, hasher, lastGet,
                   firstGets, platform, text, cpu, opt, tokens, ast>>

\* what main holds after the allocator returned r
AllocateTo(r) ==
    /\ asm' = [name |-> r.name, instructions |-> r.instructions]
    /\ stackSize' = r.stack
    /\ hasher' = r.hasher

\* main: let asm_replaced: AsmProgramWithReplacedPseudoRegisters = asm_ast.into()
Allocate ==
    /\ stage = "asm"
    /\ ~outcome.exited
    /\ \E s \in HashSeeds : AllocateTo(ReplacedSeeded(asm, s))
    /\ stage' = "replaced"
    /\ UNCHANGED <<nodes, counter, result, program, lastGet, firstGets, platform,
                   text, cpu, opt, tokens, ast, outcome>>

\* main: let asm_fixed: AsmProgramWithFixedInstructions = asm_replaced.into()
Legalize ==
    /\ stage = "replaced"
    /\ ~outcome.exited
    /\ asm' = FixedFrom(asm.name, asm.instructions, stackSize)
    /\ stage' = "fixed"
    /\ UNCHANGED <<nodes, counter, result, program, stackSize, hasher, lastGet,
                   firstGets, platform, text, cpu, opt, tokens, ast, outcome>>

\* main: let asm_final = asm_fixed.generate(target), and the exit on --codegen
Emit ==
    /\ stage = "fixed"
    /\ ~outcome.exited
    /\ \E target \in TargetPlatform :
           /\ platform' = target
           /\ text' = Generate(asm, target)
    /\ stage' = "generated"
    /\ outcome' = ExitIf(outcome, opt.codegen)
    /\ UNCHANGED <<nodes, counter, result, program, asm, stackSize, hasher,
                   lastGet, firstGets, cpu, opt, tokens, ast>>

\* main writes the text to the file, runs gcc on it and returns Ok; the
\* executable is entered at its first line, and what was never written holds
\* every bit clear or every bit set
Load ==
    /\ stage = "generated"
    /\ ~outcome.exited
    /\ outcome' = [exited |-> TRUE, code |-> 0, written |-> TRUE, gcc |-> TRUE]
    /\ \E g \in Garbage :
           cpu' = [status |-> "running", pc |-> 1,
                   regs |-> [r \in AsmRegistry |-> g],
                   mem |-> [o \in SlotOffsets |-> g],
                   flags |-> [eq |-> g # 0, lt |-> g # 0],
                   ret |-> 0]
    /\ stage' = "loaded"
    /\ UNCHANGED <<nodes, counter, result, program, asm, stackSize, hasher,
                   lastGet, firstGets, platform, text, opt, tokens, ast>>

\* the machine executes one line; running past the last line is a fault
ExecStep ==
    /\ stage = "loaded"
    /\ cpu.status = "running"
    /\ cpu' = IF cpu.pc > Len(text) THEN Fault(cpu) ELSE Execute(cpu, text)
    /\ UNCHANGED <<nodes, counter, result, stage, program, asm, stackSize, hasher,
                   lastGet, firstGets, platform, text, opt, tokens, ast, outcome>>

\* the registry and the record of calls after get(id) yielded g
RegistryGetTo(id, g) ==
    /\ hasher' = [hash |-> g.hash, counter |-> g.counter]
    /\ lastGet' = [id |-> id, ret |-> g.ret]
    /\ firstGets' = IF \E n \in 1 .. Len(firstGets) : firstGets[n].id = id
                    THEN firstGets
                    ELSE Append(firstGets, [id |-> id, ret |-> g.ret])

\* one call of PseudoRegistryHash::get
RegistryGet ==
    /\ stage = "registry"
    /\ \E id \in RegistryNames : RegistryGetTo(id, PseudoRegistryHashGet(hasher, id))
    /\ UNCHANGED <<nodes, counter, result, stage, program, asm, stackSize,
                   platform, text, cpu, opt, tokens, ast, outcome>>

Next == Parse \/ Select \/ Allocate \/ Legalize \/ Emit \/ Load \/ ExecStep
Spec == Init /\ [][Next]_vars

NextBackend == Select \/ Allocate \/ Legalize \/ Emit
SpecBackend == InitBackend /\ [][NextBackend]_vars

NextArith == Select \/ Allocate \/ Legalize \/ Emit \/ Load \/ ExecStep
SpecArith == InitArith /\ [][NextArith]_vars

NextRegistry == RegistryGet
SpecRegistry == InitRegistry /\ [][NextRegistry]_vars

NextParser == ParseTokens \/ FromProgramNode
SpecParser == InitParser /\ [][NextParser]_vars

NextDriver ==
    Validate \/ Lex \/ ParseTokens \/ FromProgramNode \/ Parse \/ Select
        \/ Allocate \/ Legalize \/ Emit \/ Load
SpecDriver == InitDriver /\ [][NextDriver]_vars

-----------------------------------------------------------------------------
(* The properties.                                                         *)

\* the operands of an instruction, in every operand position
OperandsOf(ins) ==
    CASE ins.op = "Mov" -> {ins.src, ins.dst}
      [] ins.op \in {"Cmp", "Binary"} -> {ins.first, ins.second}
      [] ins.op \in {"Unary", "Idiv", "SetCC"} -> {ins.operand}
      [] OTHER -> {}

\* the instruction has a Pseudo operand
HasPseudo(ins) == \E o \in OperandsOf(ins) : o.k = "Pseudo"

\* the instruction is a Mov or a Cmp with two Stack operands
TwoStack(ins) ==
    /\ ins.op \in {"Mov", "Cmp"}
    /\ \A o \in OperandsOf(ins) : o.k = "Stack"

\* C1: the output of the frame allocator has no Pseudo operand in any operand
\* position of any instruction, whatever list the selector produced
C1_NoPseudoAfterAllocate ==
    stage = "replaced" =>
        \A n \in 1 .. Len(asm.instructions) : ~HasPseudo(asm.instructions[n])

\* C2: the output of the legalizer has no Mov and no Cmp whose two operands
\* are both Stack operands
C2_NoTwoStackAfterLegalize ==
    stage = "fixed" =>
        \A n \in 1 .. Len(asm.instructions) : ~TwoStack(asm.instructions[n])

\* the legalizer has split a Mov between two slots through R10
C2_Witness ==
    /\ stage = "fixed"
    /\ \E n \in 1 .. (Len(asm.instructions) - 1) :
           /\ asm.instructions[n] = Mov(Stack(-4), Register("R10"))
           /\ asm.instructions[n + 1] = Mov(Register("R10"), Stack(-8))

\* C3: after any sequence of get calls, the k names requested so far map to
\* the offsets -4, -8, .., -4k in order of first encounter, counter is -4k,
\* and no two names share an offset
C3_FrameMapDense ==
    stage = "registry" =>
        /\ DOMAIN hasher.hash = {firstGets[n].id : n \in 1 .. Len(firstGets)}
        /\ \A n \in 1 .. Len(firstGets) : hasher.hash[firstGets[n].id] = -4 * n
        /\ hasher.counter = -4 * Len(firstGets)
        /\ \A a, b \in DOMAIN hasher.hash :
               a # b => hasher.hash[a] # hasher.hash[b]

\* three names have been requested, the first of them again at the end
C3_Witness ==
    /\ stage = "registry"
    /\ Cardinality(DOMAIN hasher.hash) = 3
    /\ hasher.counter = -12
    /\ lastGet.id = firstGets[1].id

\* C4: get on a name that is already mapped returns what the first call for
\* that name returned and leaves the map and the counter as they were
C4_GetIdempotent ==
    [][(stage = "registry" /\ lastGet'.id \in DOMAIN hasher.hash) =>
          /\ hasher' = hasher
          /\ \E n \in 1 .. Len(firstGets) :
                 /\ firstGets[n].id = lastGet'.id
                 /\ firstGets[n].ret = lastGet'.ret]_vars

\* a name mapped first has been requested again after every other name
C4_Witness ==
    /\ stage = "registry"
    /\ Len(firstGets) = NumNames
    /\ lastGet = firstGets[1]
    /\ lastGet.ret = -4

\* the machine has stopped after running the text emitted for one
\* Binary(op, a, b, dest) with op among ops
RanBinary(ops) ==
    /\ stage = "loaded"
    /\ cpu.status # "running"
    /\ program.instruction[1].ik = "Binary"
    /\ program.instruction[1].operator \in ops

\* what the frame slot of the first instruction's dest holds
DestValue == cpu.mem[hasher.hash[program.instruction[1].dest.id]]

\* the native signed 32-bit result of an arithmetic operator
NativeArithmetic(o, a, b) ==
    CASE o = "Add" -> WrapAdd(a, b)
      [] o = "Substract" -> WrapSub(a, b)
      [] o = "Multiply" -> WrapMul(a, b)
      [] o = "Divide" -> TruncDiv(a, b)
      [] o = "Remainder" -> TruncRem(a, b)

\* 1 when a op b holds and 0 otherwise
NativeComparison(o, a, b) ==
    LET holds == CASE o = "Equal" -> a = b
                   [] o = "NotEqual" -> a # b
                   [] o = "LessThan" -> a < b
                   [] o = "LessOrEqual" -> a <= b
                   [] o = "GreaterThan" -> a > b
                   [] o = "GreaterOrEqual" -> a >= b
    IN  IF holds THEN 1 ELSE 0

\* C5: for each arithmetic operator and all a and b (b nonzero for divide and
\* remainder), running the emitted text for Binary(op, a, b, dest) leaves the
\* native signed 32-bit result in dest
C5_ArithmeticNative ==
    (/\ RanBinary(ArithmeticOperators)
     /\ (program.instruction[1].operator \in {"Divide", "Remainder"}
            => program.instruction[1].src2.c # 0))
    => /\ cpu.status = "returned"
       /\ DestValue = NativeArithmetic(program.instruction[1].operator,
                                       program.instruction[1].src1.c,
                                       program.instruction[1].src2.c)

\* C6: for each comparison operator and all a and b, running the emitted text
\* for Binary(op, a, b, dest) leaves 1 in dest when a op b holds and 0
\* otherwise
C6_ComparisonNative ==
    RanBinary(ComparisonOperators)
    => /\ cpu.status = "returned"
       /\ DestValue = NativeComparison(program.instruction[1].operator,
                                       program.instruction[1].src1.c,
                                       program.instruction[1].src2.c)

\* the program is one function whose body is the single statement `return e;`
ReturnsOne ==
    /\ Len(nodes) = 1
    /\ nodes[1].nk = "FunctionDeclaration"
    /\ nodes[1].body.sk = "Compound"
    /\ Len(nodes[1].body.statements) = 1
    /\ nodes[1].body.statements[1].sk = "ReturnStatement"

\* the expression of that statement
Returned == nodes[1].body.statements[1].expression

\* the builder has returned Ok
Built == stage \notin {"ast", "tacky_err", "panic"}

\* the value the builder reads for an operand that is a constant
IsConstant(e) == e.ek = "Factor" /\ e.factor.fk = "Constant"

\* C7: for a binary expression in a return statement the builder ends the
\* list with one Binary instruction on the two operands' values, with a
\* temporary as dest, and the Return of that temporary
C7_BinaryLowered ==
    (stage # "ast" /\ ReturnsOne /\ Returned.ek = "Binary")
    => /\ Built
       /\ LET ir == program.instruction
              n == Len(ir)
          IN  /\ n >= 2
              /\ ir[n - 1].ik = "Binary"
              /\ ir[n - 1].operator = Returned.operator
              /\ IsConstant(Returned.left)
                    => ir[n - 1].src1 = Constant(Returned.left.factor.c)
              /\ IsConstant(Returned.right)
                    => ir[n - 1].src2 = Constant(Returned.right.factor.c)
              /\ ir[n - 1].dest.vk = "Var"
              /\ ir[n] = IrReturn(ir[n - 1].dest)
              /\ \A m \in 1 .. (n - 2) :
                     ir[m].ik \in {"Unary", "Binary"} => ir[m].dest # ir[n - 1].dest

\* the tree of 1 + 2 * 3
OnePlusTwoTimesThree ==
    Binary(Factor(FConstant(1)), "Add",
           Binary(Factor(FConstant(2)), "Multiply", Factor(FConstant(3))))

\* the positions of the Binary instructions with operator o
BinaryAt(ir, o) ==
    {n \in 1 .. Len(ir) : ir[n].ik = "Binary" /\ ir[n].operator = o}

\* C8: compiling `return 1 + 2 * 3;` yields an IR list with exactly one
\* Multiply and one Add, the Multiply's dest being the second source of the
\* Add, and the emitted text returns 7
C8_PrecedenceScenario ==
    (stage # "ast" /\ ReturnsOne /\ Returned = OnePlusTwoTimesThree)
    => /\ Built
       /\ Cardinality(BinaryAt(program.instruction, "Multiply")) = 1
       /\ Cardinality(BinaryAt(program.instruction, "Add")) = 1
       /\ \A m \in BinaryAt(program.instruction, "Multiply") :
              \A a \in BinaryAt(program.instruction, "Add") :
                  /\ program.instruction[a].src2 = program.instruction[m].dest
                  /\ program.instruction[a].src1 # program.instruction[m].dest
       /\ (stage = "loaded" /\ cpu.status # "running")
              => (cpu.status = "returned" /\ cpu.ret = 7)

RECURSIVE UnaryChain(_)
\* the expression is unary operators around a constant, with or without
\* parentheses around the operands
UnaryChain(e) ==
    /\ e.ek = "Factor"
    /\ \/ e.factor.fk = "Constant"
       \/ /\ e.factor.fk \in {"Unary", "ParentedExpression"}
          /\ UnaryChain(e.factor.expression)

RECURSIVE UnaryDepth(_)
\* the number of unary operators of a unary chain
UnaryDepth(e) ==
    CASE e.factor.fk = "Constant" -> 0
      [] e.factor.fk = "Unary" -> 1 + UnaryDepth(e.factor.expression)
      [] e.factor.fk = "ParentedExpression" -> UnaryDepth(e.factor.expression)

RECURSIVE ChainConstant(_)
\* the constant at the centre of a unary chain
ChainConstant(e) ==
    IF e.factor.fk = "Constant" THEN e.factor.c
    ELSE ChainConstant(e.factor.expression)

\* C9: a return expression of n >= 1 nested unary operators around a
\* constant, parenthesised or not, lowers to exactly n Unary instructions on
\* n distinct temporaries, each reading the dest of the one before, and the
\* Return of the last dest
C9_UnaryChainLowered ==
    (stage # "ast" /\ ReturnsOne /\ UnaryChain(Returned) /\ UnaryDepth(Returned) >= 1)
    => /\ Built
       /\ LET ir == program.instruction
              n == UnaryDepth(Returned)
          IN  /\ Len(ir) = n + 1
              /\ \A m \in 1 .. n : ir[m].ik = "Unary"
              /\ \A m, k \in 1 .. n : m # k => ir[m].dest # ir[k].dest
              /\ ir[1].src = Constant(ChainConstant(Returned))
              /\ \A m \in 2 .. n : ir[m].src = ir[m - 1].dest
              /\ ir[n + 1] = IrReturn(ir[n].dest)

\* the positions of the instructions that have a dest
DestsAt(ir) == {n \in 1 .. Len(ir) : ir[n].ik \in {"Unary", "Binary", "Copy"}}

\* C10: in every IR list the builder produces no two instructions have the
\* same dest, and the dests are tmp.0, tmp.1, .. up to the counter, which
\* starts at 0 and has grown by one per minted name
C10_DestsFresh ==
    stage \in {"tacky", "tacky_err"}
    => LET ir == result.instruction
       IN  /\ \A m, k \in DestsAt(ir) : m # k => ir[m].dest # ir[k].dest
           /\ {ir[m].dest : m \in DestsAt(ir)}
                  = {Var(TmpName(j)) : j \in 0 .. (counter - 1)}
           /\ counter = Cardinality(DestsAt(ir))

\* a compound body of two return statements has been lowered, each to a
\* Unary on a temporary of its own
C10_Witness ==
    /\ stage = "tacky"
    /\ nodes[1].body.sk = "Compound"
    /\ Len(nodes[1].body.statements) = 2
    /\ counter = 2
    /\ Len(program.instruction) = 4
    /\ program.instruction[1].dest = Var("tmp.0")
    /\ program.instruction[3].dest = Var("tmp.1")

-----------------------------------------------------------------------------
(* The shortest pipeline: a constant returned.                             *)

\* the lines generate prints between the symbol header and the end of the
\* function for `return c;`
ReturnConstantLines(c) ==
    << Line("push", << "%rbp" >>),
       Line("mov", << "%rsp", "%rbp" >>),
       Line("subq", << "$0", "%rsp" >>),
       Line("movl", << "$" \o ToString(c), "%eax" >>),
       Line("movq", << "%rbp", "%rsp" >>),
       Line("popq", << "%rbp" >>),
       Line("ret", << >>) >>

\* C11: for a body that is `return c;` the emitted function moves exactly one
\* value, the immediate c into %eax, and then runs the return epilogue; the
\* frame reservation is 0 bytes and no instruction has a stack operand
C11_ReturnConstant ==
    (stage \in {"generated", "loaded"} /\ ReturnsOne /\ IsConstant(Returned))
    => LET c == Returned.factor.c
       IN  /\ asm.instructions
                  = << AllocateStack(0), Mov(Imm(c), Register("AX")), Return >>
           /\ stackSize = 0
           /\ \A n \in 1 .. Len(asm.instructions) :
                  \A o \in OperandsOf(asm.instructions[n]) : o.k # "Stack"
           /\ SubSeq(text, 3, 9) = ReturnConstantLines(c)
           /\ Cardinality({n \in 1 .. Len(text) : text[n].mn = "movl"}) = 1

\* `return 2;` has been emitted
C11_Witness ==
    /\ stage = "generated"
    /\ ReturnsOne
    /\ Returned = Factor(FConstant(2))
    /\ text[6] = Line("movl", << "$2", "%eax" >>)

-----------------------------------------------------------------------------
(* The two target platforms.                                               *)

\* the lines of a generated text from the prologue through the last
\* instruction: all but the two symbol header lines and, on Linux, the
\* trailing section directive
FunctionLines(t, target) ==
    SubSeq(t, 3, Len(t) - (IF target = "X64Linux" THEN 1 ELSE 0))

\* C12: the text generated for one legalized program on the two platforms
\* differs only in the two symbol header lines and the trailing section
\* directive: the lines from the prologue through the last instruction are
\* the same
C12_PlatformsAgree ==
    stage = "generated"
    => /\ text = Generate(asm, platform)
       /\ \A other \in TargetPlatform :
              FunctionLines(Generate(asm, other), other)
                  = FunctionLines(text, platform)
       /\ FunctionLines(text, platform)
              = << Line("push", << "%rbp" >>), Line("mov", << "%rsp", "%rbp" >>) >>
                    \o GenerateBody(asm.instructions)

\* a program of five instructions has been emitted for Linux, and its text is
\* not the macOS text
C12_Witness ==
    /\ stage = "generated"
    /\ platform = "X64Linux"
    /\ Len(asm.instructions) >= 5
    /\ text # Generate(asm, "MacOsX64")
    /\ Len(text) = Len(Generate(asm, "MacOsX64")) + 1

\* the symbol the claim expects a platform to declare and define
SymbolOf(name, target) == IF target = "MacOsX64" THEN "_" \o name ELSE name

\* C13: on each platform the symbol declared by .globl is the label that is
\* defined: `_name` for both on macOS, `name` without a prefix for both on
\* Linux, whose text also ends with the non-executable-stack directive
C13_GlobalIsLabel ==
    stage = "generated"
    => /\ text[1] = Line(".globl", << SymbolOf(asm.name, platform) >>)
       /\ text[2] = Line(SymbolOf(asm.name, platform) \o ":", << >>)
       /\ platform = "X64Linux"
              => text[Len(text)]
                     = Line(".section", << ".note.GNU-stack", "\"\"", "@progbits" >>)

\* the same statement for macOS alone, which the emitter meets
C13_MacGlobalIsLabel ==
    (stage = "generated" /\ platform = "MacOsX64")
    => /\ text[1] = Line(".globl", << "_" \o asm.name >>)
       /\ text[2] = Line("_" \o asm.name \o ":", << >>)

-----------------------------------------------------------------------------
(* The frame reservation.                                                  *)

\* the positions of the AllocateStack instructions of a list
AllocateStackAt(instructions) ==
    {n \in 1 .. Len(instructions) : instructions[n].op = "AllocateStack"}

\* C14: the legalized list holds exactly one AllocateStack, it is the first
\* instruction, and its byte count is the allocator's frame size, 4 times the
\* number of distinct temporaries that were given a slot
C14_OneAllocateStack ==
    stage \in {"fixed", "generated"}
    => /\ AllocateStackAt(asm.instructions) = {1}
       /\ asm.instructions[1] = AllocateStack(stackSize)
       /\ stackSize = 4 * Cardinality(DOMAIN hasher.hash)

\* a program with two temporaries has been legalized: the frame is 8 bytes
C14_Witness ==
    /\ stage = "fixed"
    /\ Cardinality(DOMAIN hasher.hash) = 2
    /\ asm.instructions[1] = AllocateStack(8)

-----------------------------------------------------------------------------
(* Division and remainder in the selector.                                 *)

\* the number of instructions the selector pushed for the first n IR
\* instructions of the program
SelectedBefore(n) ==
    LET len[m \in 0 .. n] ==
            IF m = 0 THEN 0
            ELSE len[m - 1] + Len(ParseInstruction(program.instruction[m]).push)
    IN  len[n]

\* the instructions the selector pushed for the n-th IR instruction
SelectedFor(n) ==
    SubSeq(asm.instructions, SelectedBefore(n - 1) + 1, SelectedBefore(n))

\* the register the claim expects the result of a division to be copied from
ResultRegister(operator) == IF operator = "Divide" THEN "AX" ELSE "DX"

\* C15: the selector maps an IR divide to Mov(a, AX), Cdq, Idiv(b),
\* Mov(AX, dest) and an IR remainder to the same list ending in Mov(DX, dest);
\* neither uses the generic Binary instruction
C15_DivideRemainder ==
    stage = "asm"
    => \A n \in 1 .. Len(program.instruction) :
           LET i == program.instruction[n]
           IN  (i.ik = "Binary" /\ i.operator \in {"Divide", "Remainder"})
               => SelectedFor(n)
                      = << Mov(OperandFromValue(i.src1), Register("AX")),
                           Cdq,
                           Idiv(OperandFromValue(i.src2)),
                           Mov(Register(ResultRegister(i.operator)),
                               OperandFromValue(i.dest)) >>

\* the same statement for divide alone, which the selector meets
C15_DivideSelected ==
    stage = "asm"
    => \A n \in 1 .. Len(program.instruction) :
           LET i == program.instruction[n]
           IN  (i.ik = "Binary" /\ i.operator = "Divide")
               => SelectedFor(n)
                      = << Mov(OperandFromValue(i.src1), Register("AX")),
                           Cdq,
                           Idiv(OperandFromValue(i.src2)),
                           Mov(Register("AX"), OperandFromValue(i.dest)) >>

-----------------------------------------------------------------------------
(* Statements the builder does not lower.                                  *)

\* a function body that is a variable declaration, or a compound that holds
\* a variable declaration or another compound
Unlowered(body) ==
    \/ body.sk = "VariableDeclaration"
    \/ /\ body.sk = "Compound"
       /\ \E n \in 1 .. Len(body.statements) :
              body.statements[n].sk \in {"VariableDeclaration", "Compound"}

\* C16: when the body of the first function is or holds a statement kind the
\* builder does not lower, compilation ends in the IR stage: no TackyProgram
\* is returned, no later stage runs and no assembly text is produced or
\* written
C16_UnloweredAborts ==
    (Len(nodes) >= 1 /\ nodes[1].nk = "FunctionDeclaration"
        /\ Unlowered(nodes[1].body))
    => /\ stage \in {"ast", "tacky_err", "panic"}
       /\ program = FunctionDefinitionDefault
       /\ asm = NoAsm
       /\ text = << >>
       /\ cpu = CpuOff
       /\ ~outcome.written /\ ~outcome.gcc

\* the builder has aborted on a compound body whose return statement is
\* followed by a variable declaration
C16_Witness ==
    /\ stage = "panic"
    /\ Len(nodes) = 1
    /\ nodes[1].body = Compound(<< ReturnStatement(Factor(FConstant(1))),
                                   VariableDeclaration("x") >>)
    /\ program = FunctionDefinitionDefault

-----------------------------------------------------------------------------
(* What the legalizer rewrites.                                            *)

\* the number of instructions with two Stack operands, Mov or Cmp, among the
\* first n of a list
TwoStackBefore(instructions, n) ==
    Cardinality({m \in 1 .. n : TwoStack(instructions[m])})

\* the legalized list out is the list in with AllocateStack in front, each
\* Mov and Cmp on two Stack operands made two instructions, and every other
\* instruction as it was
RewritesTwoStackOnly(in, out) ==
    /\ Len(out) = 1 + Len(in) + TwoStackBefore(in, Len(in))
    /\ \A n \in 1 .. Len(in) :
           ~TwoStack(in[n])
           => LET at == 1 + n + TwoStackBefore(in, n)
              IN  at <= Len(out) /\ out[at] = in[n]

\* C20: the legalizer rewrites exactly the Mov and the Cmp instructions whose
\* two operands are both Stack, each into two instructions; every other
\* instruction, a Cmp with an immediate or register operand included, is left
\* as it was, and the output is as long as the input plus one plus the number
\* of rewritten instructions
C20_LegalizerRewrites ==
    [][(stage = "replaced" /\ stage' = "fixed")
       => RewritesTwoStackOnly(asm.instructions, asm'.instructions)]_vars

\* the same statement for the lists without a Cmp, which the legalizer meets
C20_RewritesWithoutCmp ==
    [][(stage = "replaced" /\ stage' = "fixed"
           /\ \A n \in 1 .. Len(asm.instructions) : asm.instructions[n].op # "Cmp")
       => RewritesTwoStackOnly(asm.instructions, asm'.instructions)]_vars

-----------------------------------------------------------------------------
(* Determinism of the pipeline.                                            *)

\* what a run leaves behind when it fails in the stage `failed`
FailedRun(failed) ==
    [failed |-> failed, instructions |-> << >>,
     slots |-> PseudoRegistryHashNew.hash, text |-> << >>]

\* generate_assembly after the selector: the legalized list, the slot
\* offsets and the text, in a process whose map drew the state s
BackendRun(a, target, s) ==
    LET r == ReplacedSeeded(a, s)
        f == FixedFrom(r.name, r.instructions, r.stack)
    IN  [failed |-> "none", instructions |-> f.instructions,
         slots |-> r.hasher.hash, text |-> Generate(f, target)]

\* a run of the selector and what follows it on a TackyProgram
SelectorRun(p, target, s) ==
    LET a == AsmProgramFrom(p)
    IN  IF a.panic THEN FailedRun("select")
        ELSE BackendRun([name |-> a.name, instructions |-> a.instructions],
                        target, s)

\* a whole run on a program tree
RunOf(ns, target, s) ==
    LET t == TackyParse(ns, 0, FunctionDefinitionDefault)
    IN  IF t.status # "Ok" THEN FailedRun("tacky")
        ELSE SelectorRun(t.result, target, s)

\* the stage this run failed in
FailedIn ==
    IF stage = "tacky_err" \/ (stage = "panic" /\ program = FunctionDefinitionDefault)
    THEN "tacky"
    ELSE IF stage = "panic" THEN "select" ELSE "none"

\* what this run has left behind
ThisRun ==
    [failed |-> FailedIn, instructions |-> asm.instructions,
     slots |-> hasher.hash, text |-> text]

-----------------------------------------------------------------------------
(* The parser on arbitrary token lists.                                    *)

\* C17: for every token list Parser::parse returns a Program tree or a
\* ParserError that carries the span of one of the tokens: it never ends
\* abnormally, for example on an input that ends before the closing brace or
\* on a return expression that no semicolon follows
C17_ParserTotal ==
    ast.status # "None"
    => /\ ast.status \in {"Ok", "Err"}
       /\ ast.status = "Err" => ast.at \in 1 .. Len(tokens)

\* what does hold: a ParserError that is returned carries the span of one of
\* the tokens, and a Program that is returned has a function
C17_ReturnedIsSound ==
    /\ ast.status = "Err" => ast.at \in 1 .. Len(tokens)
    /\ ast.status = "Ok" => Len(ast.value) >= 1

-----------------------------------------------------------------------------
(* The driver's flags.                                                     *)

\* the steps main can take from one stage to the next, in its fixed order
StageOrder ==
    {<<"start", "valid">>, <<"start", "invalid">>,
     <<"valid", "lexed">>, <<"valid", "lex_err">>,
     <<"lexed", "parsed">>, <<"lexed", "parse_err">>, <<"lexed", "panic">>,
     <<"parsed", "ast">>,
     <<"ast", "tacky">>, <<"ast", "tacky_err">>, <<"ast", "panic">>,
     <<"tacky", "asm">>, <<"tacky", "panic">>,
     <<"asm", "replaced">>, <<"replaced", "fixed">>, <<"fixed", "generated">>,
     <<"generated", "loaded">>}

\* the IR builder has not been started
NotBuilding == nodes = << >> /\ counter = 0 /\ program = FunctionDefinitionDefault
\* the selector has not been started
NotSelecting == asm = NoAsm /\ hasher = PseudoRegistryHashNew /\ text = << >>

\* with exactly one flag: the process exits with status 0 as soon as the
\* stage the flag names is done, no later stage has been started, and the
\* file is not written and gcc not run; with two or more flags: the process
\* exits with status 1 and no token has been produced
FlagsObeyed ==
    /\ FlagsGiven(opt) = 1
           => /\ ~outcome.written /\ ~outcome.gcc /\ cpu = CpuOff
              /\ stage # "loaded"
              /\ opt.lex => /\ stage = "lexed" => (outcome.exited /\ outcome.code = 0)
                            /\ ast = NoAst /\ NotBuilding /\ NotSelecting
              /\ opt.parse => /\ stage = "parsed" => (outcome.exited /\ outcome.code = 0)
                              /\ NotBuilding /\ NotSelecting
              /\ opt.tacky => /\ stage = "tacky" => (outcome.exited /\ outcome.code = 0)
                              /\ NotSelecting
              /\ opt.codegen
                     => (stage = "generated" => (outcome.exited /\ outcome.code = 0))
    /\ FlagsGiven(opt) >= 2
           => /\ stage \in {"start", "invalid"}
              /\ stage = "invalid" => (outcome.exited /\ outcome.code = 1)
              /\ tokens = << >> /\ ast = NoAst /\ NotBuilding /\ NotSelecting
              /\ ~outcome.written /\ ~outcome.gcc

\* one step of main goes to the next stage of the fixed order, and a process
\* that has exited starts no stage
StagesInOrder ==
    stage' # stage => (<<stage, stage'>> \in StageOrder /\ ~outcome.exited)

\* C19: the driver runs lex, parse, IR construction, select, allocate,
\* legalize and emit in this order, each after the one before is done; with
\* exactly one of --lex, --parse, --tacky, --codegen it exits with status 0
\* right after the named stage, starts no later stage, writes no file and
\* runs no gcc; with two or more of them it exits with status 1 before lexing
C19_FlagsAndOrder == []FlagsObeyed /\ [][StagesInOrder]_vars

\* a run with --tacky alone has exited with status 0 once the IR was built
C19_Witness ==
    /\ opt.tacky /\ FlagsGiven(opt) = 1
    /\ stage = "tacky"
    /\ Len(program.instruction) = 3
    /\ outcome = [exited |-> TRUE, code |-> 0, written |-> FALSE, gcc |-> FALSE]

-----------------------------------------------------------------------------
(* The order of the legalized list.                                        *)

\* what a forward pass appends for the n-th instruction: the instruction, or
\* the two instructions that replace it
ImageOf(n, ins) ==
    IF FixInstruction(n, ins) = << >> THEN << ins >>
    ELSE << FixInstruction(n, ins)[1].first, FixInstruction(n, ins)[1].second >>

\* a single forward pass over the list
ForwardPass(instructions) ==
    LET out[m \in 0 .. Len(instructions)] ==
            IF m = 0 THEN << >>
            ELSE out[m - 1] \o ImageOf(m, instructions[m])
    IN  out[Len(instructions)]

\* C21: the legalizer's in-place replacement, applied from the highest
\* recorded index to the lowest, yields the list of a single forward pass
\* that appends each instruction or its two-instruction replacement: the
\* images keep the order of the input and each pair is adjacent, the load of
\* the scratch register first
C21_ReverseIsForward ==
    [][(stage = "replaced" /\ stage' = "fixed")
       => /\ asm'.instructions
                 = ForwardPass(<< AllocateStack(stackSize) >> \o asm.instructions)
          /\ \A n \in 1 .. Len(asm.instructions) :
                 Len(ImageOf(n, asm.instructions[n])) = 2
                 => /\ ImageOf(n, asm.instructions[n])[1].op = "Mov"
                    /\ ImageOf(n, asm.instructions[n])[1].dst = Register("R10")]_vars

\* a list with two rewrites has been legalized
C21_Witness ==
    /\ stage = "fixed"
    /\ Cardinality({n \in 1 .. Len(asm.instructions) :
                        /\ asm.instructions[n].op = "Mov"
                        /\ asm.instructions[n].dst = Register("R10")}) = 2

-----------------------------------------------------------------------------
(* The scratch register.                                                   *)

\* the instruction writes R10
WritesR10(ins) ==
    \/ ins.op = "Mov" /\ ins.dst = Register("R10")
    \/ ins.op \in {"Unary", "SetCC"} /\ ins.operand = Register("R10")
    \/ ins.op = "Binary" /\ ins.second = Register("R10")

\* the instruction reads R10
ReadsR10(ins) ==
    \/ ins.op = "Mov" /\ ins.src = Register("R10")
    \/ ins.op \in {"Cmp", "Binary"} /\ Register("R10") \in {ins.first, ins.second}
    \/ ins.op \in {"Unary", "Idiv"} /\ ins.operand = Register("R10")

\* C22: in every legalized list R10 is written only by the first instruction
\* of a rewrite pair, a Mov into R10, and read only by the instruction right
\* after that write: nothing lies between the write and its one read, and R10
\* is never read before it is written
C22_ScratchNotLive ==
    stage \in {"fixed", "generated"}
    => LET ins == asm.instructions
       IN  \A n \in 1 .. Len(ins) :
               /\ WritesR10(ins[n])
                      => /\ ins[n].op = "Mov"
                         /\ ~ReadsR10(ins[n])
                         /\ n < Len(ins)
                         /\ ReadsR10(ins[n + 1])
               /\ ReadsR10(ins[n])
                      => /\ ~WritesR10(ins[n])
                         /\ n > 1
                         /\ WritesR10(ins[n - 1])

\* a comparison with zero of a temporary has been legalized into the load of
\* R10 and the Cmp that reads it
C22_Witness ==
    /\ stage = "fixed"
    /\ \E n \in 1 .. (Len(asm.instructions) - 1) :
           /\ asm.instructions[n] = Mov(Imm(0), Register("R10"))
           /\ asm.instructions[n + 1] = Cmp(Register("R10"), Stack(-4))

-----------------------------------------------------------------------------
(* What the frame allocator changes.                                       *)

\* the operand with a Pseudo replaced by the slot the map holds for its name
SlotOperand(o, hash) ==
    IF o.k # "Pseudo" THEN o
    ELSE IF o.id \in DOMAIN hash THEN Stack(hash[o.id])
    ELSE [k |-> "NoSlot", id |-> o.id]

\* the instruction with every Pseudo operand replaced by its slot, and
\* nothing else changed
Slotted(ins, hash) ==
    CASE ins.op = "Mov" -> Mov(SlotOperand(ins.src, hash), SlotOperand(ins.dst, hash))
      [] ins.op = "Cmp" ->
            Cmp(SlotOperand(ins.first, hash), SlotOperand(ins.second, hash))
      [] ins.op = "Binary" ->
            AsmBinary(ins.bop, SlotOperand(ins.first, hash),
                      SlotOperand(ins.second, hash))
      [] ins.op = "Unary" -> AsmUnary(ins.uop, SlotOperand(ins.operand, hash))
      [] ins.op = "Idiv" -> Idiv(SlotOperand(ins.operand, hash))
      [] ins.op = "SetCC" -> SetCC(ins.cc, SlotOperand(ins.operand, hash))
      [] OTHER -> ins

\* C23: the frame allocator changes nothing but Pseudo operands: its output
\* is as long as its input, with the same instruction kinds in the same
\* order, every register, immediate, operator, condition code and label as
\* it was, and each Pseudo(name) replaced by Stack(offset of name)
C23_OnlyPseudoChanged ==
    [][(stage = "asm" /\ stage' = "replaced")
       => /\ Len(asm'.instructions) = Len(asm.instructions)
          /\ \A n \in 1 .. Len(asm.instructions) :
                 asm'.instructions[n] = Slotted(asm.instructions[n], hasher'.hash)]_vars

\* the same statement for the lists without an Idiv, which the allocator
\* meets
C23_OnlyPseudoChangedNoIdiv ==
    [][(stage = "asm" /\ stage' = "replaced"
           /\ \A n \in 1 .. Len(asm.instructions) : asm.instructions[n].op # "Idiv")
       => /\ Len(asm'.instructions) = Len(asm.instructions)
          /\ \A n \in 1 .. Len(asm.instructions) :
                 asm'.instructions[n] = Slotted(asm.instructions[n], hasher'.hash)]_vars

-----------------------------------------------------------------------------
(* Comparisons in the selector.                                            *)

\* the condition code the claim names for each comparison operator
ConditionCodeImage ==
    [Equal |-> "E", NotEqual |-> "NE", LessThan |-> "L", LessOrEqual |-> "LE",
     GreaterThan |-> "G", GreaterOrEqual |-> "GE"]

\* the n-th IR instruction is a comparison
IsComparison(n) ==
    /\ program.instruction[n].ik = "Binary"
    /\ program.instruction[n].operator \in ComparisonOperators

\* C24: for every comparison Binary(op, a, b, dest) of the IR the selector
\* emits exactly Cmp(b, a), Mov(0, dest), SetCC(cc, dest), cc being the image
\* of op (Equal E, NotEqual NE, less L, less-or-equal LE, greater G,
\* greater-or-equal GE); no two comparison operators have the same cc
C24_ComparisonSelected ==
    /\ stage = "asm"
       => \A n \in 1 .. Len(program.instruction) :
              LET i == program.instruction[n]
              IN  IsComparison(n)
                  => SelectedFor(n)
                         = << Cmp(OperandFromValue(i.src2), OperandFromValue(i.src1)),
                              Mov(Imm(0), OperandFromValue(i.dest)),
                              SetCC(ConditionCodeImage[i.operator],
                                    OperandFromValue(i.dest)) >>
    /\ \A o \in ComparisonOperators : \A p \in ComparisonOperators :
           o # p => ConditionCodeFrom(o) # ConditionCodeFrom(p)

\* a less-or-equal of 3 and 5 has been selected
C24_Witness ==
    /\ stage = "asm"
    /\ IsComparison(1)
    /\ program.instruction[1].operator = "LessOrEqual"
    /\ program.instruction[1].src1 = Constant(3)
    /\ program.instruction[1].src2 = Constant(5)
    /\ SelectedFor(1)[1] = Cmp(Imm(5), Imm(3))

-----------------------------------------------------------------------------
(* Logical not in the selector.                                            *)

\* the stages at which main holds an assembly program
AsmStages == {"asm", "replaced", "fixed", "generated", "loaded"}

\* C25: a logical not is always selected as Cmp(0, src), Mov(0, dest),
\* SetCC(E, dest); no instruction list holds a Unary whose operator is Not,
\* so the placeholder mnemonic the emitter has for it is never in the text
C25_NotSelected ==
    /\ stage = "asm"
       => \A n \in 1 .. Len(program.instruction) :
              LET i == program.instruction[n]
              IN  (i.ik = "Unary" /\ i.operator = "Not")
                  => SelectedFor(n)
                         = << Cmp(Imm(0), OperandFromValue(i.src)),
                              Mov(Imm(0), OperandFromValue(i.dest)),
                              SetCC("E", OperandFromValue(i.dest)) >>
    /\ stage \in AsmStages
       => \A n \in 1 .. Len(asm.instructions) :
              ~(asm.instructions[n].op = "Unary" /\ asm.instructions[n].uop = "Not")
    /\ \A n \in 1 .. Len(text) : text[n].mn # DisplayUnaryOperator("Not")

\* the text of a program with a logical not of a temporary has been printed
C25_Witness ==
    /\ stage = "generated"
    /\ \E n \in 1 .. Len(program.instruction) :
           /\ program.instruction[n].ik = "Unary"
           /\ program.instruction[n].operator = "Not"
           /\ program.instruction[n].src.vk = "Var"
    /\ \E n \in 1 .. Len(text) : text[n].mn = "sete"

-----------------------------------------------------------------------------
(* Logical and, logical or in the selector.                                *)

\* the program holds a Binary whose operator has neither a condition code
\* nor an assembly operator
HasLogical ==
    \E n \in 1 .. Len(program.instruction) :
        /\ program.instruction[n].ik = "Binary"
        /\ program.instruction[n].operator \in LogicalOperators

\* C26: selecting a Binary whose operator is a logical and or a logical or is
\* fatal: the selector returns no AsmProgram and the process ends, so that no
\* partly selected list reaches the allocator
C26_LogicalIsFatal ==
    /\ \A o \in LogicalOperators : \A v \in IrValues(1) : \A w \in IrValues(1) :
           ParseInstruction(IrBinary(o, v, w, Var(TmpName(1)))).panic
    /\ HasLogical
       => /\ stage \in {"tacky", "panic"}
          /\ asm = NoAsm
          /\ stage = "panic" => (outcome.exited /\ outcome.code = 101)

\* the selector panicked on a logical and that follows a selected instruction
C26_Witness ==
    /\ stage = "panic"
    /\ Len(program.instruction) = 2
    /\ program.instruction[1].ik = "Unary"
    /\ program.instruction[2].ik = "Binary"
    /\ program.instruction[2].operator = "And"

-----------------------------------------------------------------------------
(* The order of the IR list.                                               *)

\* the values the n-th instruction of ir reads
ReadAt(ir, n) ==
    CASE ir[n].ik = "Unary" -> {ir[n].src}
      [] ir[n].ik = "Copy" -> {ir[n].src}
      [] ir[n].ik = "Binary" -> {ir[n].src1, ir[n].src2}
      [] ir[n].ik \in {"Return", "JumpIfZero", "JumpIfNotZero"} -> {ir[n].val}
      [] OTHER -> {}

\* the return statements of the first function's body
ReturnStatementsOf(body) ==
    CASE body.sk = "ReturnStatement" -> {body}
      [] body.sk = "Compound" ->
            {body.statements[n] : n \in {m \in 1 .. Len(body.statements) :
                                            body.statements[m].sk = "ReturnStatement"}}
      [] OTHER -> {}

\* the body of the function the builder lowers, a Compound of no statement
\* when the program has none
FirstBody ==
    IF Len(nodes) >= 1 /\ nodes[1].nk = "FunctionDeclaration" THEN nodes[1].body
    ELSE Compound(<< >>)

\* the instructions the builder emits for a return statement when the
\* counter is c
EmittedFor(c, statement) == ParseReturn(c, statement.expression).instructions

\* C27: every IR list the builder produces is in post-order: a temporary
\* read by an instruction or returned is the dest of a strictly earlier
\* instruction of the list, and the Return of a return statement is the last
\* instruction emitted for that statement
C27_PostOrder ==
    stage \in {"tacky", "tacky_err"}
    => /\ LET ir == result.instruction
          IN  \A n \in 1 .. Len(ir) : \A v \in ReadAt(ir, n) :
                  v.vk = "Var" => \E m \in DestsAt(ir) : m < n /\ ir[m].dest = v
       /\ \A statement \in ReturnStatementsOf(FirstBody) :
              \A c \in 0 .. MaxSize :
                  LET ir == EmittedFor(c, statement)
                  IN  \A n \in 1 .. Len(ir) : ir[n].ik = "Return" => n = Len(ir)

\* a chain of two unary operators has been lowered and returned
C27_Witness ==
    /\ stage = "tacky"
    /\ Len(result.instruction) = 3
    /\ result.instruction[1].ik = "Unary"
    /\ result.instruction[2].ik = "Unary"
    /\ result.instruction[2].src = result.instruction[1].dest
    /\ result.instruction[3] = IrReturn(result.instruction[2].dest)

-----------------------------------------------------------------------------
(* One function is lowered.                                                *)

\* what may follow the first declaration of a program
Followers ==
    {<< >>,
     << FunctionDeclaration("f", Compound(<< >>)) >>,
     << FunctionDeclaration("f", VariableDeclaration("x")) >>,
     << FunctionDeclaration("f", Compound(<< ReturnStatement(Factor(FConstant(2))) >>)),
        FunctionDeclaration("g", Compound(<< ReturnStatement(NoExpression) >>)) >>,
     << StatementNode(ReturnStatement(Factor(FConstant(3)))) >>}

\* the program starts with a function declaration
StartsWithFunction == Len(nodes) >= 1 /\ nodes[1].nk = "FunctionDeclaration"

\* the status parse returned with
StatusOf(s) == IF s = "tacky" THEN "Ok" ELSE "Err"

\* C28: one function is lowered, the first declaration of the program: every
\* program with the same first function declaration gets the same name and
\* the same IR list from Tacky::parse, whatever follows it, and parse
\* returns an error when the first node is not a function declaration
C28_FirstFunctionOnly ==
    /\ (stage \in {"tacky", "tacky_err"} /\ StartsWithFunction)
       => \A rest \in Followers :
              LET other == TackyParse(<< nodes[1] >> \o rest, 0,
                                      FunctionDefinitionDefault)
              IN  /\ other.status = StatusOf(stage)
                  /\ other.result.identifier = result.identifier
                  /\ other.result.instruction = result.instruction
                  /\ result.identifier = nodes[1].name
    /\ (stage # "ast" /\ ~StartsWithFunction)
       => /\ stage = "tacky_err"
          /\ program = FunctionDefinitionDefault

\* a program of two functions has been lowered to the first one
C28_Witness ==
    /\ stage = "tacky"
    /\ Len(nodes) = 2
    /\ nodes[2].nk = "FunctionDeclaration"
    /\ nodes[2].name = "f"
    /\ result = [identifier |-> "main", instruction |-> << IrReturn(Constant(1)) >>]

-----------------------------------------------------------------------------
(* parse_expression on constants separated by binary operators.            *)

\* the largest number of operands of a chain
MaxOperands == 4

\* the operator tokens of the chains: two of one precedence, one above them
\* and one below
ChainOperators == {Tok("Hyphen"), Tok("Plus"), Tok("Asteriks"), Tok("EqualTo")}
ChainConstants == {TokConstant(1), TokConstant(2)}

RECURSIVE Chains(_)
\* the token lists of n constants separated by binary operators
Chains(n) ==
    IF n = 1 THEN {<< c >> : c \in ChainConstants}
    ELSE {l \o << o, c >> : l \in Chains(n - 1), o \in ChainOperators,
                            c \in ChainConstants}

\* the chains of at most n operands
ChainsUpTo(n) == UNION {Chains(m) : m \in 1 .. n}

\* a Parser has been made of a chain
InitExpression ==
    /\ opt = NoFlags
    /\ tokens \in ChainsUpTo(MaxOperands)
    /\ ast = NoAst
    /\ nodes = << >>
    /\ program = FunctionDefinitionDefault
    /\ stage = "chain"
    /\ Idle

\* parser.parse_expression()
ParseExpressionCall ==
    /\ stage = "chain"
    /\ ast' = ParseExpression(tokens, 0)
    /\ stage' = "expression"
    /\ UNCHANGED <<nodes, counter, result, program, asm, stackSize, hasher,
                   lastGet, firstGets, platform, text, cpu, opt, tokens, outcome>>

NextExpression == ParseExpressionCall
SpecExpression == InitExpression /\ [][NextExpression]_vars

\* the precedence of the operator token at index k
PrecedenceAt(toks, k) == Precedence(BinaryOperatorFromToken(toks[k].t))

\* the indices of the operator tokens between lo and hi
OperatorsBetween(lo, hi) == {k \in lo .. hi : (k - lo) % 2 = 1}

\* the operator applied last in toks[lo .. hi]: of those that bind least,
\* the rightmost
LastApplied(toks, lo, hi) ==
    CHOOSE k \in OperatorsBetween(lo, hi) :
        \A j \in OperatorsBetween(lo, hi) :
            \/ PrecedenceAt(toks, j) > PrecedenceAt(toks, k)
            \/ PrecedenceAt(toks, j) = PrecedenceAt(toks, k) /\ j <= k

RECURSIVE TreeOf(_, _, _)
\* the tree of the chain toks[lo .. hi] in which a higher precedence binds
\* tighter and equal precedences associate to the left
TreeOf(toks, lo, hi) ==
    IF lo = hi THEN Factor(FConstant(toks[lo].c))
    ELSE CHOOSE tree \in
             { Binary(TreeOf(toks, lo, k - 1),
                      BinaryOperatorFromToken(toks[k].t),
                      TreeOf(toks, k + 1, hi)) :
               k \in { LastApplied(toks, lo, hi) } } : TRUE

\* C29: for every token sequence of constants separated by binary operators
\* parse_expression returns the tree in which the operators of higher
\* precedence bind tighter and those of equal precedence associate to the
\* left: a - b - c is (a - b) - c and a + b * c is a + (b * c)
C29_PrecedenceClimbing ==
    stage = "expression"
    => ast = ParserOk(Len(tokens), TreeOf(tokens, 1, Len(tokens)))

\* 1 - 2 - 1 has been parsed as (1 - 2) - 1
C29_Witness ==
    /\ stage = "expression"
    /\ tokens = << TokConstant(1), Tok("Hyphen"), TokConstant(2), Tok("Hyphen"),
                   TokConstant(1) >>
    /\ ast.value = Binary(Binary(Factor(FConstant(1)), "Substract",
                                 Factor(FConstant(2))),
                          "Substract", Factor(FConstant(1)))

\* 1 + 2 * 1 has been parsed as 1 + (2 * 1)
C29_WitnessTighter ==
    /\ stage = "expression"
    /\ tokens = << TokConstant(1), Tok("Plus"), TokConstant(2), Tok("Asteriks"),
                   TokConstant(1) >>
    /\ ast.value = Binary(Factor(FConstant(1)), "Add",
                          Binary(Factor(FConstant(2)), "Multiply",
                                 Factor(FConstant(1))))

-----------------------------------------------------------------------------
(* The cursor of Parser::parse, one iteration of its loop at a time.       *)

\* the largest number of tokens behind the last whole function
MaxTail == 2

\* the tokens of `int main(void) {}`, of `int main(void) { return 1; }` and
\* of `void f(int x) { return 1 - 2; }`
FunctionTexts ==
    {FunctionHeader \o << Tok("CloseBrace") >>,
     ReturnTokens(<< TokConstant(1) >>),
     << Tok("VoidKeyWord"), TokIdentifier("f"), Tok("OpenParenthesis"),
        Tok("IntKeyword"), TokIdentifier("x"), Tok("CloseParenthesis"),
        Tok("OpenBrace"), Tok("ReturnKeyWord"), TokConstant(1), Tok("Hyphen"),
        TokConstant(2), Tok("Semicolon"), Tok("CloseBrace") >>}

\* the tokens of the tails
TailTokens ==
    {Tok("IntKeyword"), TokIdentifier("x"), Tok("OpenParenthesis"),
     Tok("CloseParenthesis"), Tok("OpenBrace"), Tok("CloseBrace"),
     Tok("ReturnKeyWord"), Tok("Semicolon"), TokConstant(1), Tok("Hyphen")}

RECURSIVE Tails(_)
\* the sequences of exactly n tail tokens
Tails(n) ==
    IF n = 0 THEN {<< >>}
    ELSE {Append(l, t) : l \in Tails(n - 1), t \in TailTokens}

\* at most two whole functions followed by at most n tokens
CursorLists(n) ==
    {f \o t : f \in {<< >>} \cup FunctionTexts
                      \cup {g \o h : g \in FunctionTexts, h \in FunctionTexts},
              t \in UNION {Tails(m) : m \in 0 .. n}}

\* Parser::parse is entered: pos is 0 and nodes is empty; ast holds the
\* cursor and the nodes pushed
InitCursor ==
    /\ opt = NoFlags
    /\ tokens \in CursorLists(MaxTail)
    /\ ast = ParserOk(0, << >>)
    /\ nodes = << >>
    /\ program = FunctionDefinitionDefault
    /\ stage = "parsing"
    /\ Idle

\* the stage main is at when parse has returned r, or panicked
StageAfter(r) ==
    CASE r.status = "Ok" -> "parsed"
      [] r.status = "Err" -> "parse_err"
      [] r.status = "Panic" -> "panic"

\* parse after parse_function yielded fun: the push, or the return of the Err
FunctionPushed(fun) ==
    /\ ast' = IF fun.status = "Ok"
              THEN ParserOk(fun.pos, Append(ast.value, fun.value))
              ELSE fun
    /\ stage' = IF fun.status = "Ok" THEN "parsing" ELSE StageAfter(fun)

\* one iteration of `while self.pos < self.tokens.len()`
FunctionIteration ==
    /\ stage = "parsing"
    /\ ast.pos < Len(tokens)
    /\ FunctionPushed(ParseFunction(tokens, ast.pos))
    /\ UNCHANGED <<nodes, counter, result, program, asm, stackSize, hasher,
                   lastGet, firstGets, platform, text, cpu, opt, tokens, outcome>>

\* parse behind its loop, r being what it returns
FunctionsReturned(r) ==
    /\ ast' = r
    /\ stage' = StageAfter(r)

\* the end of the loop: `if nodes.is_empty() { Err(..) } else { Ok(..) }`
FunctionsEnd ==
    /\ stage = "parsing"
    /\ ast.pos >= Len(tokens)
    /\ FunctionsReturned(IF Len(ast.value) = 0
                         THEN LastError(tokens, ast.pos, "NoValidFunctions")
                         ELSE ast)
    /\ UNCHANGED <<nodes, counter, result, program, asm, stackSize, hasher,
                   lastGet, firstGets, platform, text, cpu, opt, tokens, outcome>>

NextCursor == FunctionIteration \/ FunctionsEnd
\* parse runs on one thread until it returns
SpecCursor == InitCursor /\ [][NextCursor]_vars /\ WF_vars(NextCursor)

\* a call that starts at pos and yields r leaves the cursor between pos and
\* the number of tokens, and behind pos when the loop it is called from
\* goes on
Advances(pos, r) ==
    /\ r.pos >= pos
    /\ r.pos <= Len(tokens)
    /\ r.status = "Ok" => r.pos > pos

\* the minimum precedences parse_binary_expression is called with for the
\* operators of the inputs
MinPrecedences == {0, Precedence("Substract") + 1}

\* the calls the parameter-skipping loop, the statement loop and the
\* binary-operator loop make from the cursor pos
InnerLoopsAdvance(pos) ==
    /\ AdvancePos(tokens, pos) >= pos
    /\ AdvancePos(tokens, pos) <= Len(tokens)
    /\ Advances(pos, SkipParameters(tokens, pos))
    /\ Advances(pos, ParseStatement(tokens, pos))
    /\ \A m \in MinPrecedences : Advances(pos, ParseBinaryExpression(tokens, pos, m))

\* a step of parse leaves the cursor where it was or moves it on, not past
\* the last token, and moves it on when the function loop goes on
CursorStep ==
    /\ ast'.pos >= ast.pos
    /\ ast'.pos <= Len(tokens)
    /\ stage' = "parsing" => ast'.pos > ast.pos
    /\ \A pos \in 0 .. Len(tokens) : InnerLoopsAdvance(pos)

\* C30: Parser::parse terminates on every finite token list: pos never
\* decreases and never exceeds tokens.len(), and every iteration of the
\* function loop, of the parameter-skipping loop, of the statement loop and
\* of the binary-operator loop advances pos or ends its loop
C30_ParseTerminates ==
    /\ [][CursorStep]_vars
    /\ <>(stage # "parsing")
    /\ [](stage # "parsing" => ast = ParserParse(tokens))

\* parse has returned two functions, the second with a parameter and a
\* binary operator, and the cursor is behind the last token
C30_Witness ==
    /\ stage = "parsed"
    /\ Len(ast.value) = 2
    /\ ast.value[2].name = "f"
    /\ ast.pos = Len(tokens)
    /\ ast.pos > 13

====
